---- MODULE Spec2Model ----
(***************************************************************************)
(* TerrainAnalystAgent (src/src/sar_project/agents/terrain_agent.py).      *)
(*                                                                         *)
(* State: the two per-location dicts of the agent (current_analysis,       *)
(* obstacle_database), the weather service it consults, the wall clock     *)
(* read by _get_timestamp, the value returned by the last call (result),   *)
(* and both dicts as they were when that call began (before).              *)
(*                                                                         *)
(* Conventions.  A Python dict is a function whose DOMAIN is its key set.  *)
(* Location identifiers are strings, written as sequences of characters    *)
(* so that the substring test of identify_obstacles is computed.  Floats   *)
(* drawn by random.uniform are kept as integers in the unit named in the   *)
(* field's comment (vegetation_density in thousandths).  The list that     *)
(* random.sample returns for terrain_types is used only for membership     *)
(* and is kept as a set of three tags.  Obstacle coordinates (derived from *)
(* Python's salted hash()) and estimated_crossing_time (float arithmetic   *)
(* with a square root) are not part of the state.  The coordinates of a    *)
(* location, from which distances and waypoints are computed, follow from  *)
(* hash(location) % 1000, given by LocationHash for the run.               *)
(***************************************************************************)
EXTENDS Integers, Sequences, FiniteSets, TLC

VARIABLES current_analysis, obstacle_database, weather_agent, clock, result, before

vars == <<current_analysis, obstacle_database, weather_agent, clock, result, before>>

(***************************************************************************)
(* Bounds of the model.                                                    *)
(***************************************************************************)
\* number of calls of the agent in a run; the clock stops there
MaxClock == 2

(***************************************************************************)
(* dict helpers                                                            *)
(***************************************************************************)
\* d.get(k, default)
Get(d, k, default) == IF k \in DOMAIN d THEN d[k] ELSE default

\* d[k] = v
Put(d, k, v) == [x \in (DOMAIN d) \cup {k} |-> IF x = k THEN v ELSE d[x]]

\* the empty dict
EmptyDict == [x \in {} |-> 0]

\* needle in s, for strings as character sequences
IsSubstring(needle, s) == \E i \in 0..(Len(s) - Len(needle)) : SubSeq(s, i + 1, i + Len(needle)) = needle

(***************************************************************************)
(* Inputs: location identifiers, weather snapshots, random draws.          *)
(***************************************************************************)
\* location identifiers
Locations == {"r1", "obstacle_type_x"}

\* a location identifier as its sequence of characters
Chars(location) ==
  CASE location = "r1" -> <<"r", "1">>
    [] location = "obstacle_type_x" -> <<"o", "b", "s", "t", "a", "c", "l", "e", "_", "t", "y", "p", "e", "_", "x">>

\* the literal "obstacle_type" tested against the location in identify_obstacles
ObstacleTypeLiteral == <<"o", "b", "s", "t", "a", "c", "l", "e", "_", "t", "y", "p", "e">>

\* terrain_types vocabulary of analyze_terrain
TERRAIN_TYPES == {"forest", "mountain", "river", "plains", "urban", "desert", "tundra", "swamp"}

SOIL_TYPES == {"rocky", "sandy", "clay", "loam", "peat"}

\* random.sample(terrain_types, 3): three distinct tags
TerrainTypeSamples == {s \in SUBSET TERRAIN_TYPES : Cardinality(s) = 3}

\* a weather snapshot of the weather service
Weather(t, w, p, v) == [temperature |-> t, wind_speed |-> w, precipitation |-> p, visibility |-> v]

\* the random draws of one analyze_terrain call
Draw(types, emin, emax, slope, water, veg, soil) == [terrain_types |-> types, elev_min |-> emin, elev_max |-> emax, slope |-> slope, water_bodies |-> water, vegetation_density |-> veg, soil_type |-> soil]

\* weather snapshots the agent runs are checked with
WeatherCalm == Weather(20, 10, 5, 10)

WeatherStorm == Weather(-5, 45, 45, 2)

AgentWeathers == {WeatherCalm, WeatherStorm}

\* draws of analyze_terrain the agent runs are checked with
AgentDraws ==
  { Draw({"mountain", "river", "forest"}, 100, 1500, 45, 2, 900, "clay"),
    Draw({"desert", "swamp", "plains"}, 1300, 1300, 10, 0, 500, "rocky") }

\* weather snapshots the rule tables are checked with: every threshold, both sides
RuleWeathers == {Weather(t, w, p, v) : t \in {-1, 0, 35, 36}, w \in {30, 31}, p \in {10, 11, 30, 31, 40, 41, 45}, v \in {4, 5}}

\* draws the rule tables are checked with
RuleDraws == {Draw(ty, 100, 1500, sl, 0, 500, so) : ty \in TerrainTypeSamples, sl \in {20, 21, 30, 31}, so \in {"clay", "loam"}}

\* weather snapshots the crossing scores are checked with
CrossingWeathers == {Weather(t, w, p, v) : t \in {3, 4, 5, 20}, w \in {20, 21, 30, 31}, p \in {10, 11, 20, 21, 25, 45}, v \in {4, 5, 10}}

\* weather snapshots the weather-based obstacles are checked with
ObstacleWeathers == {Weather(t, w, p, v) : t \in {14, 15}, w \in {40, 41}, p \in {30, 31}, v \in {2, 3}}

\* draws the obstacle rules are checked with
ObstacleDraws == {Draw(ty, 100, 1500, 30, 0, veg, "loam") : ty \in TerrainTypeSamples, veg \in {700, 701}}

\* weather snapshots the change rules are checked with, as the old and as the new one
MonitorWeathers == {Weather(t, w, p, 10) : t \in {-1, 0, 1, 5, 6}, w \in {10, 25, 26}, p \in {5, 25, 26}}

\* draws the change rules are checked with: with and without forest
MonitorDraws == {Draw(ty, 100, 1500, 30, 0, 500, "loam") : ty \in {{"forest", "river", "plains"}, {"urban", "river", "plains"}}}

\* weather snapshots the path delays are checked with, at the start and at the end
PathWeathers == {Weather(t, w, p, v) : t \in {-1, 1, 35, 36}, w \in {30, 31}, p \in {20, 21}, v \in {4, 6}}

\* the keys of _obstacle_templates
OBSTACLE_TYPES == {"generic_obstacle", "steep_slope", "water_crossing", "dense_vegetation", "sandy_terrain", "boggy_ground", "flash_flood", "low_visibility_area", "wind_hazard"}

\* obstacle types the agent runs ask evaluate_crossing_difficulty about: template keys and one unknown type
QueryTypes == {"generic_obstacle", "steep_slope", "flash_flood", "crevasse"}

(***************************************************************************)
(* _weather_interaction_templates and _analyze_terrain_weather_interactions *)
(***************************************************************************)
\* the keys of _weather_interaction_templates in insertion order
InteractionKeys == <<"landslide_risk", "rising_water", "slippery_ground", "falling_branches", "dangerous_ridgelines", "ice_formation", "slippery_surfaces", "extreme_heat", "reduced_visibility">>

\* template["condition"](terrain, weather)
interaction_condition(key, terrain, weather) ==
  CASE key = "landslide_risk" -> "mountain" \in terrain["terrain_types"] /\ Get(weather, "precipitation", 0) > 10
    [] key = "rising_water" -> "river" \in terrain["terrain_types"] /\ Get(weather, "precipitation", 0) > 10
    [] key = "slippery_ground" -> Get(terrain, "soil_type", "none") = "clay" /\ Get(weather, "precipitation", 0) > 10
    [] key = "falling_branches" -> "forest" \in terrain["terrain_types"] /\ Get(weather, "wind_speed", 0) > 30
    [] key = "dangerous_ridgelines" -> Get(Get(terrain, "elevation", EmptyDict), "max", 0) > 1000 /\ Get(weather, "wind_speed", 0) > 30
    [] key = "ice_formation" -> "river" \in terrain["terrain_types"] /\ Get(weather, "temperature", 20) < 0
    [] key = "slippery_surfaces" -> Get(weather, "temperature", 20) < 0
    [] key = "extreme_heat" -> "desert" \in terrain["terrain_types"] /\ Get(weather, "temperature", 20) > 35
    [] key = "reduced_visibility" -> Get(weather, "visibility", 10) < 5

\* template["interaction"]["type"]
interaction_type(key) ==
  CASE key = "landslide_risk" -> "increased_landslide_risk"
    [] key = "rising_water" -> "rising_water_levels"
    [] key = "extreme_heat" -> "extreme_heat_danger"
    [] OTHER -> key

\* template["interaction"]["description"]
interaction_description(key) ==
  CASE key = "landslide_risk" -> "Rain increases the risk of landslides on steep slopes"
    [] key = "rising_water" -> "Rain may cause water levels to rise"
    [] key = "slippery_ground" -> "Rain on clay soil creates slippery conditions"
    [] key = "falling_branches" -> "High winds may cause branches or trees to fall"
    [] key = "dangerous_ridgelines" -> "High winds on exposed ridgelines create hazardous conditions"
    [] key = "ice_formation" -> "Freezing temperatures create ice on water crossings"
    [] key = "slippery_surfaces" -> "Freezing temperatures create icy surfaces"
    [] key = "extreme_heat" -> "High temperatures increase risk of heat-related illness"
    [] key = "reduced_visibility" -> "Poor visibility increases risk of navigation errors"

\* template["interaction"]["severity"].__code__.co_argcount
severity_argcount(key) == IF key = "slippery_surfaces" THEN 2 ELSE 1

\* landslide_risk: lambda weather
landslide_risk_severity(weather) == IF Get(weather, "precipitation", 0) > 30 THEN "high" ELSE "medium"

\* faulty variant of rising_water_severity: the landslide threshold copied over
rising_water_severity_at_30(weather) == IF Get(weather, "precipitation", 0) > 30 THEN "high" ELSE "medium"

\* rising_water: lambda weather
rising_water_severity(weather) == IF Get(weather, "precipitation", 0) > 40 THEN "high" ELSE "medium"

\* slippery_surfaces: lambda terrain, weather
slippery_surfaces_severity(terrain, weather) == IF Get(terrain, "slope", 0) > 20 THEN "high" ELSE "medium"

\* reduced_visibility: lambda terrain
reduced_visibility_severity(terrain) == IF Get(terrain, "slope", 0) > 30 THEN "high" ELSE "medium"

\* the one-parameter severity lambdas, applied to the one argument they are handed
severity_one(key, arg) ==
  CASE key = "landslide_risk" -> landslide_risk_severity(arg)
    [] key = "rising_water" -> rising_water_severity(arg)
    [] key = "slippery_ground" -> "medium"
    [] key = "falling_branches" -> "high"
    [] key = "dangerous_ridgelines" -> "high"
    [] key = "ice_formation" -> "medium"
    [] key = "extreme_heat" -> "extreme"
    [] key = "reduced_visibility" -> reduced_visibility_severity(arg)

\* the two-parameter severity lambda
severity_two(key, terrain, weather) == slippery_surfaces_severity(terrain, weather)

\* the arity dispatch of _analyze_terrain_weather_interactions
interaction_severity(key, terrain_analysis, weather_data) ==
  IF severity_argcount(key) = 1
  THEN severity_one(key, weather_data)
  ELSE severity_two(key, terrain_analysis, weather_data)

\* the interaction a fired rule appends
interaction_of(key, terrain_analysis, weather_data) == [type |-> interaction_type(key), description |-> interaction_description(key), severity |-> interaction_severity(key, terrain_analysis, weather_data)]

RECURSIVE interactions_from(_, _, _)
\* the loop over the templates, from the i-th key on
interactions_from(i, terrain_analysis, weather_data) ==
  IF i > Len(InteractionKeys) THEN << >>
  ELSE (IF interaction_condition(InteractionKeys[i], terrain_analysis, weather_data)
        THEN << interaction_of(InteractionKeys[i], terrain_analysis, weather_data) >>
        ELSE << >>) \o interactions_from(i + 1, terrain_analysis, weather_data)

\* faulty variant of _analyze_terrain_weather_interactions: the loop stops at the first rule that fires
analyze_first_match_only(terrain_analysis, weather_data) ==
  LET all == interactions_from(1, terrain_analysis, weather_data)
  IN IF all = << >> THEN all ELSE << all[1] >>

_analyze_terrain_weather_interactions(terrain_analysis, weather_data) == interactions_from(1, terrain_analysis, weather_data)

(***************************************************************************)
(* The weather service (sar_project.agents.weather_agent, an external      *)
(* collaborator): its current conditions per location are state.           *)
(***************************************************************************)
\* weather_agent.get_current_conditions(location)
get_current_conditions(location) == weather_agent[location]

\* the lists weather_agent.assess_weather_risk(location)["risks"] is drawn from
WeatherRiskLists == {<< >>}

\* _get_timestamp(): the wall clock
_get_timestamp == clock

(***************************************************************************)
(* analyze_terrain                                                         *)
(***************************************************************************)
\* the three keys analyze_terrain adds to the analysis when include_weather is set
with_weather(analysis, weather_data, risks) ==
  analysis @@ [weather_conditions |-> weather_data,
               weather_risks |-> risks,
               terrain_weather_interactions |-> _analyze_terrain_weather_interactions(analysis, weather_data)]

\* the analysis dict analyze_terrain builds from its random draws
build_analysis(location, resolution, include_weather, draw, risks) ==
  LET analysis == [location |-> location,
                   resolution |-> resolution,
                   terrain_types |-> draw.terrain_types,
                   elevation |-> [min |-> draw.elev_min, max |-> draw.elev_max],
                   slope |-> draw.slope,
                   water_bodies |-> draw.water_bodies,
                   vegetation_density |-> draw.vegetation_density,
                   soil_type |-> draw.soil_type,
                   analysis_timestamp |-> _get_timestamp]
  IN IF include_weather
     THEN with_weather(analysis, get_current_conditions(location), risks)
     ELSE analysis

\* analyze_terrain: the analysis cache after the call; the call returns its entry for location
analyze_terrain(ca, location, resolution, include_weather, draw, risks) == Put(ca, location, build_analysis(location, resolution, include_weather, draw, risks))

(***************************************************************************)
(* _obstacle_templates, _create_obstacle, identify_obstacles               *)
(***************************************************************************)
\* template["severity"]
template_severity(obstacle_type) ==
  CASE obstacle_type \in {"steep_slope", "boggy_ground", "low_visibility_area", "wind_hazard"} -> "high"
    [] obstacle_type = "flash_flood" -> "extreme"
    [] OTHER -> "medium"

\* template["details"] with its lambdas evaluated: seed 0 draws every minimum, seed 1 every maximum
\* (depth_meters and current_speed in tenths)
template_details(obstacle_type, seed) ==
  CASE obstacle_type = "generic_obstacle" -> [description |-> "General terrain challenge", area_sq_meters |-> IF seed = 0 THEN 50 ELSE 500]
    [] obstacle_type = "steep_slope" -> [slope_degrees |-> IF seed = 0 THEN 30 ELSE 60, length_meters |-> IF seed = 0 THEN 100 ELSE 500]
    [] obstacle_type = "water_crossing" -> [width_meters |-> IF seed = 0 THEN 5 ELSE 30, depth_meters |-> IF seed = 0 THEN 5 ELSE 30, current_speed |-> IF seed = 0 THEN 10 ELSE 50]
    [] obstacle_type = "dense_vegetation" -> [area_sq_meters |-> IF seed = 0 THEN 100 ELSE 5000, visibility_meters |-> IF seed = 0 THEN 1 ELSE 10, vegetation_type |-> IF seed = 0 THEN "thick brush" ELSE "thorny bushes"]
    [] obstacle_type = "sandy_terrain" -> [area_sq_meters |-> IF seed = 0 THEN 500 ELSE 10000, sand_depth_cm |-> IF seed = 0 THEN 10 ELSE 100]
    [] obstacle_type = "boggy_ground" -> [area_sq_meters |-> IF seed = 0 THEN 50 ELSE 2000, depth_meters |-> IF seed = 0 THEN 3 ELSE 20]
    [] obstacle_type = "flash_flood" -> [depth_meters |-> IF seed = 0 THEN 5 ELSE 20, current_speed |-> IF seed = 0 THEN 20 ELSE 80, caused_by |-> "heavy rainfall"]
    [] obstacle_type = "low_visibility_area" -> [visibility_meters |-> IF seed = 0 THEN 100 ELSE 3000, caused_by |-> IF seed = 0 THEN "haze" ELSE "fog"]
    [] obstacle_type = "wind_hazard" -> [wind_speed_kph |-> IF seed = 0 THEN 40 ELSE 80, risk |-> IF seed = 0 THEN "reduced stability" ELSE "falling branches"]

\* _create_obstacle(obstacle_type, location), for the template keys
_create_obstacle(obstacle_type, seed) == [type |-> obstacle_type, severity |-> template_severity(obstacle_type), details |-> template_details(obstacle_type, seed)]

\* the low_visibility_area obstacle with its details overwritten from the weather
low_visibility_obstacle(weather, seed) ==
  LET obstacle == _create_obstacle("low_visibility_area", seed)
  IN [obstacle EXCEPT !.details = [visibility_meters |-> Get(weather, "visibility", 0) * 1000,
                                   caused_by |-> IF Get(weather, "temperature", 20) < 15 THEN "fog" ELSE "haze"]]

\* faulty variant of wind_hazard_obstacle: the details of the template left as drawn
wind_hazard_obstacle_as_drawn(analysis, weather, seed) == _create_obstacle("wind_hazard", seed)

\* the wind_hazard obstacle with its details overwritten from the weather and the terrain
wind_hazard_obstacle(analysis, weather, seed) ==
  LET obstacle == _create_obstacle("wind_hazard", seed)
  IN [obstacle EXCEPT !.details = [wind_speed_kph |-> Get(weather, "wind_speed", 0),
                                   risk |-> IF "forest" \in analysis["terrain_types"] THEN "falling branches" ELSE "reduced stability"]]

\* an optional list element
When(cond, x) == IF cond THEN << x >> ELSE << >>

\* faulty variant of terrain_obstacles: one water crossing for the river, one for the literal
terrain_obstacles_crossing_twice(analysis, location, seed) ==
     When("mountain" \in analysis["terrain_types"], _create_obstacle("steep_slope", seed))
  \o When("river" \in analysis["terrain_types"], _create_obstacle("water_crossing", seed))
  \o When(IsSubstring(ObstacleTypeLiteral, Chars(location)), _create_obstacle("water_crossing", seed))
  \o When(analysis["vegetation_density"] > 700, _create_obstacle("dense_vegetation", seed))
  \o When("desert" \in analysis["terrain_types"], _create_obstacle("sandy_terrain", seed))
  \o When("swamp" \in analysis["terrain_types"], _create_obstacle("boggy_ground", seed))

\* identify_obstacles: the terrain-based obstacles, after the generic one
terrain_obstacles(analysis, location, seed) ==
     When("mountain" \in analysis["terrain_types"], _create_obstacle("steep_slope", seed))
  \o When("river" \in analysis["terrain_types"] \/ IsSubstring(ObstacleTypeLiteral, Chars(location)), _create_obstacle("water_crossing", seed))
  \o When(analysis["vegetation_density"] > 700, _create_obstacle("dense_vegetation", seed))
  \o When("desert" \in analysis["terrain_types"], _create_obstacle("sandy_terrain", seed))
  \o When("swamp" \in analysis["terrain_types"], _create_obstacle("boggy_ground", seed))

\* identify_obstacles: the weather-based obstacles
weather_obstacles(analysis, include_weather, seed) ==
  IF include_weather /\ "weather_conditions" \in DOMAIN analysis
  THEN LET weather == analysis["weather_conditions"]
       IN    When(Get(weather, "precipitation", 0) > 30, _create_obstacle("flash_flood", seed))
          \o When(Get(weather, "visibility", 10) < 3, low_visibility_obstacle(weather, seed))
          \o When(Get(weather, "wind_speed", 0) > 40, wind_hazard_obstacle(analysis, weather, seed))
  ELSE << >>

\* faulty variant of build_obstacles: the generic obstacle appended last, and only when nothing else was found
build_obstacles_generic_fallback(analysis, location, include_weather, seed) ==
  LET found == terrain_obstacles(analysis, location, seed) \o weather_obstacles(analysis, include_weather, seed)
  IN IF found = << >> THEN << _create_obstacle("generic_obstacle", seed) >> ELSE found

\* identify_obstacles: the obstacle list built from the cached analysis
build_obstacles(analysis, location, include_weather, seed) ==
  << _create_obstacle("generic_obstacle", seed) >> \o terrain_obstacles(analysis, location, seed) \o weather_obstacles(analysis, include_weather, seed)

\* faulty variant of identify_obstacles: a list already stored for the location is kept
identify_obstacles_keep_stored(ca, db, location, include_weather, draw, risks, seed) ==
  LET ca1 == IF location \notin DOMAIN ca THEN analyze_terrain(ca, location, "medium", include_weather, draw, risks) ELSE ca
      obstacles == build_obstacles(ca1[location], location, include_weather, seed)
  IN [ca |-> ca1,
      db |-> IF location \in DOMAIN db THEN db ELSE Put(db, location, obstacles),
      ret |-> [location |-> location,
               obstacle_count |-> Len(obstacles),
               obstacles |-> obstacles,
               weather_factored |-> include_weather,
               analysis_timestamp |-> _get_timestamp]]

\* faulty variant of identify_obstacles: the analysis it triggers is used and not cached
identify_obstacles_analysis_uncached(ca, db, location, include_weather, draw, risks, seed) ==
  LET ca1 == IF location \notin DOMAIN ca THEN analyze_terrain(ca, location, "medium", include_weather, draw, risks) ELSE ca
      obstacles == build_obstacles(ca1[location], location, include_weather, seed)
  IN [ca |-> ca,
      db |-> Put(db, location, obstacles),
      ret |-> [location |-> location,
               obstacle_count |-> Len(obstacles),
               obstacles |-> obstacles,
               weather_factored |-> include_weather,
               analysis_timestamp |-> _get_timestamp]]

\* identify_obstacles: both caches after the call (ca, db) and the value returned (ret)
identify_obstacles(ca, db, location, include_weather, draw, risks, seed) ==
  LET ca1 == IF location \notin DOMAIN ca THEN analyze_terrain(ca, location, "medium", include_weather, draw, risks) ELSE ca
      obstacles == build_obstacles(ca1[location], location, include_weather, seed)
  IN [ca |-> ca1,
      db |-> Put(db, location, obstacles),
      ret |-> [location |-> location,
               obstacle_count |-> Len(obstacles),
               obstacles |-> obstacles,
               weather_factored |-> include_weather,
               analysis_timestamp |-> _get_timestamp]]

\* if location not in self.current_analysis: self.analyze_terrain(location, include_weather=...)
analysed(ca, location, include_weather, draw, risks) ==
  IF location \notin DOMAIN ca THEN analyze_terrain(ca, location, "medium", include_weather, draw, risks) ELSE ca

\* if location not in self.obstacle_database: self.identify_obstacles(location, include_weather=...),
\* for a location that is analysed
with_obstacles(ca, db, location, include_weather, draw, risks, seed) ==
  IF location \notin DOMAIN db THEN identify_obstacles(ca, db, location, include_weather, draw, risks, seed).db ELSE db

(***************************************************************************)
(* evaluate_crossing_difficulty                                            *)
(***************************************************************************)
\* base_difficulties.get(obstacle_type, 3)
base_difficulty(obstacle_type) ==
  CASE obstacle_type = "steep_slope" -> 3
    [] obstacle_type = "water_crossing" -> 4
    [] obstacle_type = "dense_vegetation" -> 2
    [] obstacle_type = "flash_flood" -> 5
    [] obstacle_type = "sandy_terrain" -> 2
    [] obstacle_type = "boggy_ground" -> 3
    [] obstacle_type = "low_visibility_area" -> 3
    [] obstacle_type = "wind_hazard" -> 2
    [] OTHER -> 3

\* 1 when the condition holds, as a summand
Add(cond, n) == IF cond THEN n ELSE 0

\* faulty variant of weather_modifier: the visibility test as one more elif of the chain
weather_modifier_visibility_elif(obstacle_type, weather) ==
  CASE obstacle_type = "water_crossing" -> Add(Get(weather, "precipitation", 0) > 20, 2) + Add(Get(weather, "temperature", 20) < 5, 1)
    [] obstacle_type = "steep_slope" -> Add(Get(weather, "precipitation", 0) > 10, 2) + Add(Get(weather, "wind_speed", 0) > 30, 1)
    [] obstacle_type = "dense_vegetation" -> Add(Get(weather, "wind_speed", 0) > 20, 1)
    [] OTHER -> Add(Get(weather, "visibility", 10) < 5, 1)

\* faulty variant of weather_modifier: the precipitation comparisons turned round
weather_modifier_dry_is_hard(obstacle_type, weather) ==
  (CASE obstacle_type = "water_crossing" -> Add(Get(weather, "precipitation", 0) < 20, 2) + Add(Get(weather, "temperature", 20) < 5, 1)
     [] obstacle_type = "steep_slope" -> Add(Get(weather, "precipitation", 0) < 10, 2) + Add(Get(weather, "wind_speed", 0) > 30, 1)
     [] obstacle_type = "dense_vegetation" -> Add(Get(weather, "wind_speed", 0) > 20, 1)
     [] OTHER -> 0)
  + Add(Get(weather, "visibility", 10) < 5, 1)

\* weather_modifiers after the if/elif chain and the visibility test
weather_modifier(obstacle_type, weather) ==
  (CASE obstacle_type = "water_crossing" -> Add(Get(weather, "precipitation", 0) > 20, 2) + Add(Get(weather, "temperature", 20) < 5, 1)
     [] obstacle_type = "steep_slope" -> Add(Get(weather, "precipitation", 0) > 10, 2) + Add(Get(weather, "wind_speed", 0) > 30, 1)
     [] obstacle_type = "dense_vegetation" -> Add(Get(weather, "wind_speed", 0) > 20, 1)
     [] OTHER -> 0)
  + Add(Get(weather, "visibility", 10) < 5, 1)

\* faulty variant of _score_to_difficulty: strict comparisons
_score_to_difficulty_strict(score) ==
  IF score < 2 THEN "easy"
  ELSE IF score < 4 THEN "moderate"
  ELSE IF score < 6 THEN "difficult"
  ELSE "extreme"

_score_to_difficulty(score) ==
  IF score <= 2 THEN "easy"
  ELSE IF score <= 4 THEN "moderate"
  ELSE IF score <= 6 THEN "difficult"
  ELSE "extreme"

\* the obstacle types _crossing_recommendations has an entry for
RecommendedTypes == {"water_crossing", "steep_slope", "dense_vegetation", "flash_flood", "boggy_ground"}

\* _crossing_recommendations.get(obstacle_type, {}).get(difficulty, fallback): which of the two
_get_crossing_recommendation(obstacle_type, difficulty) ==
  IF obstacle_type \in RecommendedTypes
  THEN <<"_crossing_recommendations", obstacle_type, difficulty>>
  ELSE <<"Exercise caution appropriate to rating", difficulty>>

\* list.index(x): the 0-based position of the first element equal to x
IndexOf(seq, x) == (CHOOSE i \in 1..Len(seq) : seq[i] = x /\ \A j \in 1..(i - 1) : seq[j] # x) - 1

\* one pass of the loop over matching_obstacles
crossing_evaluation(stored, obstacle, obstacle_type, weather) ==
  LET base_score == base_difficulty(obstacle_type)
      weather_modifiers == weather_modifier(obstacle_type, weather)
      final_score == base_score + weather_modifiers
      difficulty_rating == _score_to_difficulty(final_score)
  IN [obstacle_id |-> IndexOf(stored, obstacle),
      base_difficulty |-> base_score,
      weather_modifier |-> weather_modifiers,
      final_difficulty |-> final_score,
      difficulty_rating |-> difficulty_rating,
      crossing_recommendation |-> _get_crossing_recommendation(obstacle_type, difficulty_rating)]

\* [o for o in obstacles if o["type"] == obstacle_type]
matching_obstacles(obstacles, obstacle_type) == SelectSeq(obstacles, LAMBDA o : o["type"] = obstacle_type)

\* faulty variant of crossing_result: no test for an empty list of matching obstacles
crossing_result_unchecked(stored, location, obstacle_type, weather) ==
  LET matching == matching_obstacles(stored, obstacle_type)
  IN [location |-> location,
      obstacle_type |-> obstacle_type,
      current_weather |-> weather,
      evaluation_timestamp |-> _get_timestamp,
      evaluations |-> [i \in 1..Len(matching) |-> crossing_evaluation(stored, matching[i], obstacle_type, weather)]]

\* what evaluate_crossing_difficulty returns once both caches hold the location
crossing_result(stored, location, obstacle_type, weather) ==
  LET matching == matching_obstacles(stored, obstacle_type)
  IN IF matching = << >>
     THEN [location |-> location,
           obstacle_type |-> obstacle_type,
           current_weather |-> weather,
           error |-> "No matching obstacles found",
           recommendation |-> "Run identify_obstacles to update obstacle database or try a different obstacle type"]
     ELSE [location |-> location,
           obstacle_type |-> obstacle_type,
           current_weather |-> weather,
           evaluation_timestamp |-> _get_timestamp,
           evaluations |-> [i \in 1..Len(matching) |-> crossing_evaluation(stored, matching[i], obstacle_type, weather)]]

\* evaluate_crossing_difficulty: both caches after the call (ca, db) and the value returned (ret)
evaluate_crossing_difficulty(ca, db, location, obstacle_type, draw, risks, seed) ==
  LET ca1 == IF location \notin DOMAIN ca THEN analyze_terrain(ca, location, "medium", TRUE, draw, risks) ELSE ca
      db1 == IF location \notin DOMAIN db THEN identify_obstacles(ca1, db, location, TRUE, draw, risks, seed).db ELSE db
  IN [ca |-> ca1,
      db |-> db1,
      ret |-> crossing_result(db1[location], location, obstacle_type, get_current_conditions(location))]

(***************************************************************************)
(* _terrain_change_templates and monitor_terrain_changes                   *)
(***************************************************************************)
\* the keys of _terrain_change_templates in insertion order
ChangeKeys == <<"increased_water_levels", "fallen_trees", "snow_melt", "freezing_conditions">>

\* the two-parameter conditions: lambda old_weather, new_weather
change_condition(key, old_weather, new_weather) ==
  CASE key = "increased_water_levels" -> Get(new_weather, "precipitation", 0) > Get(old_weather, "precipitation", 0) + 20
    [] key = "snow_melt" -> Get(old_weather, "temperature", 0) < 0 /\ Get(new_weather, "temperature", 0) > 5
    [] key = "freezing_conditions" -> Get(old_weather, "temperature", 0) > 0 /\ Get(new_weather, "temperature", 0) < 0

\* fallen_trees: lambda old_weather, new_weather, terrain
fallen_trees_condition(old_weather, new_weather, terrain) ==
  Get(new_weather, "wind_speed", 0) > Get(old_weather, "wind_speed", 0) + 15 /\ "forest" \in terrain["terrain_types"]

\* template["change"]
change_of(key) ==
  CASE key = "increased_water_levels" -> [type |-> key, description |-> "Recent rainfall may have raised water levels", affected_areas |-> <<"river banks", "low-lying areas">>, severity |-> "medium"]
    [] key = "fallen_trees" -> [type |-> key, description |-> "Increased winds may have caused tree falls", affected_areas |-> <<"forested areas", "trails">>, severity |-> "high"]
    [] key = "snow_melt" -> [type |-> key, description |-> "Rising temperatures are causing snow and ice melt", affected_areas |-> <<"slopes", "water crossings">>, severity |-> "medium"]
    [] key = "freezing_conditions" -> [type |-> key, description |-> "Dropping temperatures are causing icy conditions", affected_areas |-> <<"paths", "slopes", "water crossings">>, severity |-> "high"]

\* faulty variant of change_fires: the old and the new snapshot handed over in the wrong order
change_fires_swapped(key, old_weather, current_weather, last_analysis) ==
  IF key = "fallen_trees"
  THEN fallen_trees_condition(current_weather, old_weather, last_analysis)
  ELSE change_condition(key, current_weather, old_weather)

\* faulty variant of change_fires: the comparisons of snow_melt turned round
change_fires_melt_reversed(key, old_weather, current_weather, last_analysis) ==
  CASE key = "fallen_trees" -> fallen_trees_condition(old_weather, current_weather, last_analysis)
    [] key = "snow_melt" -> Get(old_weather, "temperature", 0) > 0 /\ Get(current_weather, "temperature", 0) < 5
    [] OTHER -> change_condition(key, old_weather, current_weather)

\* the call of condition_func, by the signature the key selects
change_fires(key, old_weather, current_weather, last_analysis) ==
  IF key = "fallen_trees"
  THEN fallen_trees_condition(old_weather, current_weather, last_analysis)
  ELSE change_condition(key, old_weather, current_weather)

RECURSIVE changes_from(_, _, _, _)
\* the loop over the change templates, from the i-th key on
changes_from(i, old_weather, current_weather, last_analysis) ==
  IF i > Len(ChangeKeys) THEN << >>
  ELSE When(change_fires(ChangeKeys[i], old_weather, current_weather, last_analysis), change_of(ChangeKeys[i]))
       \o changes_from(i + 1, old_weather, current_weather, last_analysis)

\* faulty variant of terrain_changes: a missing weather snapshot taken as an empty one
terrain_changes_from_nothing(last_analysis, current_weather) ==
  changes_from(1, Get(last_analysis, "weather_conditions", EmptyDict), current_weather, last_analysis)

\* terrain_changes: empty unless the cached analysis holds a weather snapshot
terrain_changes(last_analysis, current_weather) ==
  IF "weather_conditions" \in DOMAIN last_analysis
  THEN changes_from(1, last_analysis["weather_conditions"], current_weather, last_analysis)
  ELSE << >>

\* what monitor_terrain_changes returns for a cached analysis
monitor_result(last_analysis, location, current_weather) ==
  LET changes == terrain_changes(last_analysis, current_weather)
  IN [location |-> location,
      last_analysis |-> last_analysis["analysis_timestamp"],
      current_time |-> _get_timestamp,
      detected_changes |-> changes,
      requires_reanalysis |-> Len(changes) > 0,
      current_weather |-> current_weather]

\* faulty variant of monitor_terrain_changes: no test for a missing analysis, the weather is read first
monitor_terrain_changes_unguarded(ca, location) ==
  [ca |-> ca,
   ret |-> monitor_result(Get(ca, location, [analysis_timestamp |-> 0]), location, get_current_conditions(location)),
   weather_calls |-> << location >>]

\* faulty variant of monitor_terrain_changes: the weather just read becomes the cached snapshot
monitor_terrain_changes_rebased(ca, location) ==
  IF location \notin DOMAIN ca
  THEN [ca |-> ca,
        ret |-> [location |-> location,
                 error |-> "No prior analysis available",
                 recommendation |-> "Run terrain analysis first"],
        weather_calls |-> << >>]
  ELSE [ca |-> Put(ca, location, [weather_conditions |-> get_current_conditions(location)] @@ ca[location]),
        ret |-> monitor_result(ca[location], location, get_current_conditions(location)),
        weather_calls |-> << location >>]

\* monitor_terrain_changes: the analysis cache after the call (ca: it is not written), the
\* value returned (ret) and the locations the weather service was asked about (weather_calls)
monitor_terrain_changes(ca, location) ==
  IF location \notin DOMAIN ca
  THEN [ca |-> ca,
        ret |-> [location |-> location,
                 error |-> "No prior analysis available",
                 recommendation |-> "Run terrain analysis first"],
        weather_calls |-> << >>]
  ELSE [ca |-> ca,
        ret |-> monitor_result(ca[location], location, get_current_conditions(location)),
        weather_calls |-> << location >>]

(***************************************************************************)
(* get_terrain_map and _generate_geojson (coordinates left out)            *)
(***************************************************************************)
\* the formats callers ask get_terrain_map for
Formats == {"GeoJSON", "kml"}

\* format.lower()
Lower(format) == IF format = "GeoJSON" THEN "geojson" ELSE format

\* the polygon feature of the terrain area
terrain_feature(location, analysis) ==
  [geometry |-> "Polygon",
   properties |-> [name |-> <<"Terrain area: ", location>>,
                   terrain_types |-> analysis["terrain_types"],
                   elevation_range |-> <<analysis["elevation"]["min"], analysis["elevation"]["max"]>>,
                   vegetation_density |-> analysis["vegetation_density"],
                   soil_type |-> Get(analysis, "soil_type", "unknown")]]

\* the point feature of the idx-th obstacle (idx from 0): the details written over the three fixed properties
obstacle_feature(idx, obstacle) ==
  [geometry |-> "Point",
   properties |-> Get(obstacle, "details", EmptyDict) @@ [name |-> <<"Obstacle ", idx + 1>>, type |-> obstacle["type"], severity |-> obstacle["severity"]]]

\* the weather marker at the centre
weather_marker_feature(weather) ==
  [geometry |-> "Point",
   properties |-> [name |-> "Weather Conditions",
                   temperature |-> Get(weather, "temperature", "None"),
                   wind_speed |-> Get(weather, "wind_speed", "None"),
                   precipitation |-> Get(weather, "precipitation", "None"),
                   visibility |-> Get(weather, "visibility", "None"),
                   feature_type |-> "weather_marker"]]

\* the point feature of the idx-th interaction (idx from 0)
weather_impact_feature(idx, interaction) ==
  [geometry |-> "Point",
   properties |-> [name |-> <<"Weather Impact ", idx + 1>>,
                   type |-> interaction["type"],
                   description |-> interaction["description"],
                   severity |-> interaction["severity"],
                   feature_type |-> "weather_impact"]]

\* the features of the weather overlay
weather_features(analysis, include_weather) ==
  IF include_weather /\ "weather_conditions" \in DOMAIN analysis
  THEN << weather_marker_feature(analysis["weather_conditions"]) >>
       \o (IF "terrain_weather_interactions" \in DOMAIN analysis
           THEN [i \in 1..Len(analysis["terrain_weather_interactions"]) |-> weather_impact_feature(i - 1, analysis["terrain_weather_interactions"][i])]
           ELSE << >>)
  ELSE << >>

_generate_geojson(location, analysis, obstacles, include_weather) ==
  [type |-> "FeatureCollection",
   features |-> << terrain_feature(location, analysis) >>
                \o [i \in 1..Len(obstacles) |-> obstacle_feature(i - 1, obstacles[i])]
                \o weather_features(analysis, include_weather)]

\* get_terrain_map from line 550 on: both caches and the value returned
map_result(ca, db, location, format, include_weather) ==
  [ca |-> ca,
   db |-> db,
   ret |-> IF Lower(format) = "geojson"
           THEN _generate_geojson(location, ca[location], db[location], include_weather)
           ELSE [error |-> <<"Unsupported format: ", format>>]]

\* get_terrain_map once the location is analysed
map_of_analysed(ca, db, location, format, include_weather, draw, risks, seed) ==
  map_result(ca, with_obstacles(ca, db, location, include_weather, draw, risks, seed), location, format, include_weather)

\* faulty variant of get_terrain_map: the terrain analysed on every call
get_terrain_map_reanalysed(ca, db, location, format, include_weather, draw, risks, seed) ==
  map_of_analysed(analyze_terrain(ca, location, "medium", include_weather, draw, risks), db, location, format, include_weather, draw, risks, seed)

\* get_terrain_map: both caches after the call (ca, db) and the value returned (ret)
get_terrain_map(ca, db, location, format, include_weather, draw, risks, seed) ==
  map_of_analysed(analysed(ca, location, include_weather, draw, risks), db, location, format, include_weather, draw, risks, seed)

(***************************************************************************)
(* generate_path.  Distances are in hundredths of a kilometre, times in    *)
(* 1/100000 of an hour, averages in halves, so that every product and      *)
(* quotient of the code is exact; coordinates are <<lon, lat>> in          *)
(* millionths of a degree, waypoint times in tenths of a minute.           *)
(***************************************************************************)
\* hash(location) % 1000 of the locations, fixed for the life of the process
LocationHash(location) == IF location = "r1" THEN 405 ELSE 406

\* the values of hash(location) % 1000 the rules are checked with: one point, the next to its
\* north and the next to its east
HashSamples == {405, 406, 415}

\* the coordinates derived from a location's hash
coordinates_of_hash(location_hash) ==
  << (-120 + (location_hash \div 10)) * 1000000, (35 + (location_hash % 10)) * 1000000 >>

\* _parse_location_to_coordinates
_parse_location_to_coordinates(location) == coordinates_of_hash(LocationHash(location))

\* None
None == << >>

\* the integer square root of x, sought between lo and hi
RECURSIVE Isqrt(_, _, _)
Isqrt(x, lo, hi) ==
  IF lo >= hi THEN lo
  ELSE IF ((lo + hi + 1) \div 2) * ((lo + hi + 1) \div 2) <= x
       THEN Isqrt(x, (lo + hi + 1) \div 2, hi)
       ELSE Isqrt(x, lo, (lo + hi + 1) \div 2 - 1)

\* math.cos of a latitude, in thousandths, by its whole degree (the latitudes the hashes give)
Cos1000(lat) ==
  CASE lat \div 1000000 <= 34 -> 829
    [] lat \div 1000000 = 35 -> 819
    [] lat \div 1000000 = 36 -> 809
    [] lat \div 1000000 = 37 -> 799
    [] lat \div 1000000 = 38 -> 788
    [] lat \div 1000000 = 39 -> 777
    [] lat \div 1000000 = 40 -> 766
    [] lat \div 1000000 = 41 -> 755
    [] lat \div 1000000 = 42 -> 743
    [] lat \div 1000000 = 43 -> 731
    [] OTHER -> 719

\* the length of an arc of d millionths of a degree on the sphere of radius 6371 km
\* (111.19 km to the degree, taken as 90 millionths to 10 m)
ArcLength(d) == (IF d < 0 THEN -d ELSE d) \div 90

\* the distance of two points whose north-south and east-west separations are dy and dx
PlaneDistance(dx, dy) == Isqrt(dx * dx + dy * dy, 0, 40000)

\* _calculate_distance_between_coordinates: the haversine distance, computed for the
\* separations of a few degrees that occur as the distance in the plane
_calculate_distance_between_coordinates(coords1, coords2) ==
  PlaneDistance((ArcLength(coords2[1] - coords1[1]) * Cos1000(coords1[2])) \div 1000, ArcLength(coords2[2] - coords1[2]))

\* _calculate_distance_between_locations
_calculate_distance_between_locations(location1, location2) ==
  _calculate_distance_between_coordinates(_parse_location_to_coordinates(location1), _parse_location_to_coordinates(location2))

\* the distances the path times are checked with: those between the sampled points
PathDistances ==
  {_calculate_distance_between_coordinates(coordinates_of_hash(h1), coordinates_of_hash(h2)) : h1, h2 \in HashSamples}

\* a / b for b > 0, rounded to the nearest integer, a tie to the even one
RoundDiv(a, b) ==
  IF 2 * (a % b) < b THEN a \div b
  ELSE IF 2 * (a % b) > b THEN (a \div b) + 1
  ELSE IF (a \div b) % 2 = 0 THEN a \div b ELSE (a \div b) + 1

\* the greatest number of waypoints: random.randint(3, 7)
MaxWaypoints == 7

\* the outcomes of the two random.uniform(-0.02, 0.02) of each waypoint the runs are checked
\* with: none, the widest both ways in turn, and a drift from south-west to north-east
Jitters ==
  { [i \in 1..MaxWaypoints |-> <<0, 0>>],
    [i \in 1..MaxWaypoints |-> IF i % 2 = 0 THEN <<20000, -20000>> ELSE <<-20000, 20000>>],
    [i \in 1..MaxWaypoints |-> <<5000 * i - 20000, 6000 * i - 20000>>] }

\* the coordinates of waypoint i of num_waypoints: interpolated, moved by the jitter, rounded
waypoint_coordinates(i, start_coords, end_coords, num_waypoints, jitter) ==
  << start_coords[1] + RoundDiv((end_coords[1] - start_coords[1]) * i, num_waypoints + 1) + jitter[i][1],
     start_coords[2] + RoundDiv((end_coords[2] - start_coords[2]) * i, num_waypoints + 1) + jitter[i][2] >>

\* round(minutes, 1) of a distance walked at 3 km/h
walking_minutes(distance) == 2 * distance

\* _calculate_waypoint_time: waypoints[k] of the code is waypoints[k + 1] here
_calculate_waypoint_time(waypoint_id, waypoints, start_coords) ==
  IF waypoints = << >> \/ waypoint_id <= 0 THEN 150
  ELSE IF waypoint_id = 1 /\ start_coords # None
       THEN walking_minutes(_calculate_distance_between_coordinates(start_coords, waypoints[1]["coordinates"]))
  ELSE IF waypoint_id = 1 THEN 150
  ELSE IF waypoint_id - 2 < 0 \/ waypoint_id - 1 >= Len(waypoints) THEN 150
  ELSE walking_minutes(_calculate_distance_between_coordinates(waypoints[waypoint_id - 1]["coordinates"], waypoints[waypoint_id]["coordinates"]))

\* waypoints.append({...}): the dict is built, its time computed from the list as it is
\* before the append, and then appended
append_waypoint(waypoints, i, start_coords, end_coords, num_waypoints, jitter) ==
  Append(waypoints,
         [id |-> i,
          coordinates |-> waypoint_coordinates(i, start_coords, end_coords, num_waypoints, jitter),
          estimated_time_from_previous |-> _calculate_waypoint_time(i, waypoints, IF i = 1 THEN start_coords ELSE None)])

\* the list after the first i rounds of the loop of _generate_waypoints
RECURSIVE waypoints_after(_, _, _, _, _)
waypoints_after(i, start_coords, end_coords, num_waypoints, jitter) ==
  IF i = 0 THEN << >>
  ELSE append_waypoint(waypoints_after(i - 1, start_coords, end_coords, num_waypoints, jitter), i, start_coords, end_coords, num_waypoints, jitter)

\* _generate_waypoints, from the coordinates of start and end
waypoints_between(start_coords, end_coords, num_waypoints, jitter) ==
  waypoints_after(num_waypoints, start_coords, end_coords, num_waypoints, jitter)

\* _generate_waypoints
_generate_waypoints(start, end, num_waypoints, jitter) ==
  waypoints_between(_parse_location_to_coordinates(start), _parse_location_to_coordinates(end), num_waypoints, jitter)

\* the difficulties callers ask generate_path for: the four of the table and one it lacks
Difficulties == {"easy", "normal", "hard", "extreme", "scenic"}

\* time_multipliers.get(difficulty, 1.0), in tenths
time_multiplier(difficulty) ==
  CASE difficulty = "easy" -> 7
    [] difficulty = "normal" -> 10
    [] difficulty = "hard" -> 15
    [] difficulty = "extreme" -> 20
    [] OTHER -> 10

\* avg_weather, each field as the sum of the two snapshots' values (twice the average)
avg_weather(start_weather, end_weather) ==
  [temperature |-> Get(start_weather, "temperature", 20) + Get(end_weather, "temperature", 20),
   wind_speed |-> Get(start_weather, "wind_speed", 0) + Get(end_weather, "wind_speed", 0),
   precipitation |-> Get(start_weather, "precipitation", 0) + Get(end_weather, "precipitation", 0),
   visibility |-> Get(start_weather, "visibility", 10) + Get(end_weather, "visibility", 10)]

\* faulty variant of weather_delay: each delay taken on the time already delayed
weather_delay_compounded(estimated_time, avg) ==
  LET t1 == estimated_time * 100 + Add(avg["wind_speed"] > 2 * 30, 20 * estimated_time)
      t2 == t1 + Add(avg["precipitation"] > 2 * 20, (30 * t1) \div 100)
      t3 == t2 + Add(avg["visibility"] < 2 * 5, (25 * t2) \div 100)
      t4 == t3 + Add(avg["temperature"] < 0 \/ avg["temperature"] > 2 * 35, (10 * t3) \div 100)
  IN t4 - estimated_time * 100

\* weather_delay for estimated_time in thousandths of an hour: the four delays, summed
weather_delay(estimated_time, avg) ==
    Add(avg["wind_speed"] > 2 * 30, 20 * estimated_time)
  + Add(avg["precipitation"] > 2 * 20, 30 * estimated_time)
  + Add(avg["visibility"] < 2 * 5, 25 * estimated_time)
  + Add(avg["temperature"] < 0 \/ avg["temperature"] > 2 * 35, 10 * estimated_time)

\* estimated_time, weather_delay and final_time of generate_path
path_times(distance, difficulty, include_weather, start_weather, end_weather) ==
  LET estimated_time == distance * time_multiplier(difficulty)
      delay == IF include_weather THEN weather_delay(estimated_time, avg_weather(start_weather, end_weather)) ELSE 0
  IN [estimated_time |-> estimated_time * 100,
      weather_delay |-> delay,
      final_time |-> estimated_time * 100 + delay]

\* round(x, 1) for x >= 0 in 1/100000: the nearest tenth, a tie to the even one
round1(x) ==
  LET q == x \div 10000
      r == x % 10000
  IN IF 2 * r < 10000 THEN q
     ELSE IF 2 * r > 10000 THEN q + 1
     ELSE IF q % 2 = 0 THEN q ELSE q + 1

\* _generate_challenge_description
_generate_challenge_description(obstacle_type) ==
  IF obstacle_type \in OBSTACLE_TYPES \ {"generic_obstacle"}
  THEN <<"descriptions", obstacle_type>>
  ELSE "Challenging terrain feature"

\* _generate_mitigation_strategy
_generate_mitigation_strategy(obstacle_type) ==
  IF obstacle_type \in OBSTACLE_TYPES \ {"generic_obstacle"}
  THEN <<"strategies", obstacle_type>>
  ELSE "Proceed with caution"

\* the challenge appended for a selected obstacle
challenge_of(obstacle) ==
  [type |-> obstacle["type"],
   severity |-> obstacle["severity"],
   description |-> _generate_challenge_description(obstacle["type"]),
   mitigation |-> _generate_mitigation_strategy(obstacle["type"])]

\* all_obstacles: the stored list of start followed by the stored list of end
all_obstacles(db, start, end) == Get(db, start, << >>) \o Get(db, end, << >>)

\* the outcomes of random.sample(all_obstacles, min(len(all_obstacles), random.randint(1, 3))),
\* as sequences of distinct positions of a list of n elements: the ones the runs are checked with
SamplePicks(n) ==
  IF n = 0 THEN {<< >>}
  ELSE {p \in {<<1>>, <<1, (n \div 2) + 1>>, <<n, 1, 2>>} :
          /\ \A i \in 1..Len(p) : p[i] \in 1..n
          /\ \A i, j \in 1..Len(p) : i # j => p[i] # p[j]}

\* _get_terrain_challenges, with the positions random.sample selected
_get_terrain_challenges(db, start, end, picks) ==
  LET all == all_obstacles(db, start, end)
  IN [i \in 1..Len(picks) |-> challenge_of(all[picks[i]])]

\* _equipment_by_challenge
equipment_by_challenge(challenge_type) ==
  CASE challenge_type = "steep_slope" -> {"climbing rope", "harnesses", "carabiners", "helmets"}
    [] challenge_type = "water_crossing" -> {"water-resistant boots", "trekking poles", "life vests"}
    [] challenge_type = "dense_vegetation" -> {"machetes", "heavy gloves", "protective clothing"}
    [] challenge_type = "sandy_terrain" -> {"gaiters", "wide-base footwear"}
    [] challenge_type = "boggy_ground" -> {"trekking poles", "mud boots", "extraction equipment"}
    [] challenge_type = "flash_flood" -> {"water-resistant gear", "emergency flotation devices"}
    [] challenge_type = "low_visibility_area" -> {"high-powered flashlights", "reflective markers"}
    [] challenge_type = "wind_hazard" -> {"wind-resistant clothing", "face protection"}
    [] OTHER -> {}

\* _recommend_equipment: list(set(equipment)), kept as the set
_recommend_equipment(terrain_challenges) ==
  {"standard SAR kit", "communications equipment", "first aid supplies"}
  \cup UNION {equipment_by_challenge(terrain_challenges[i]["type"]) : i \in 1..Len(terrain_challenges)}

\* generate_path: both caches once the obstacles of start, then of end, are stored if they were not
path_obstacles(ca, db, start, end, include_weather, draws, risks, seeds) ==
  [ca |-> ca,
   db |-> with_obstacles(ca, with_obstacles(ca, db, start, include_weather, draws[1], risks, seeds[1]), end, include_weather, draws[2], risks, seeds[2])]

\* faulty variant of path_caches: both endpoints analysed anew
path_caches_reanalysed(ca, db, start, end, include_weather, draws, risks, seeds) ==
  path_obstacles(analyze_terrain(analyze_terrain(ca, start, "medium", include_weather, draws[1], risks), end, "medium", include_weather, draws[2], risks),
                 db, start, end, include_weather, draws, risks, seeds)

\* generate_path: both caches once both endpoints are analysed and have their obstacles
path_caches(ca, db, start, end, include_weather, draws, risks, seeds) ==
  path_obstacles(analysed(analysed(ca, start, include_weather, draws[1], risks), end, include_weather, draws[2], risks),
                 db, start, end, include_weather, draws, risks, seeds)

\* path_data, from the times and the challenges computed
path_data(start, end, difficulty, include_weather, distance, waypoints, times, terrain_challenges, start_weather, end_weather, risks) ==
  [start |-> start,
   end |-> end,
   difficulty |-> difficulty,
   distance_km |-> distance,
   estimated_time_hours |-> round1(times.final_time),
   base_time_hours |-> round1(times.estimated_time),
   weather_delay_hours |-> round1(times.weather_delay),
   waypoints |-> waypoints,
   terrain_challenges |-> terrain_challenges,
   recommended_equipment |-> _recommend_equipment(terrain_challenges),
   generated_timestamp |-> _get_timestamp]
  @@ (IF include_weather
      THEN [weather_conditions |-> [start |-> start_weather, end |-> end_weather, average |-> avg_weather(start_weather, end_weather)],
            weather_risks |-> risks]
      ELSE EmptyDict)

\* generate_path from line 485 on: the value returned, for the obstacle cache as it then is
path_plan(db, start, end, difficulty, include_weather, distance, route, risks, picks) ==
  path_data(start, end, difficulty, include_weather, distance,
            _generate_waypoints(start, end, route.num_waypoints, route.jitter),
            path_times(distance, difficulty, include_weather, get_current_conditions(start), get_current_conditions(end)),
            _get_terrain_challenges(db, start, end, picks),
            get_current_conditions(start), get_current_conditions(end), risks)

\* both caches and the value returned
path_result(caches, start, end, difficulty, include_weather, distance, route, risks, picks) ==
  [ca |-> caches.ca, db |-> caches.db, ret |-> path_plan(caches.db, start, end, difficulty, include_weather, distance, route, risks, picks)]

\* generate_path: both caches after the call (ca, db) and the value returned (ret)
generate_path(ca, db, start, end, difficulty, include_weather, distance, route, draws, risks, seeds, picks) ==
  path_result(path_caches(ca, db, start, end, include_weather, draws, risks, seeds), start, end, difficulty, include_weather, distance, route, risks, picks)

(***************************************************************************)
(* process_request.  A message is a dict; rnd holds the random draws the   *)
(* dispatched operation may make (draws, risks, seeds, picks) and the      *)
(* distance between the endpoints; weather_up tells whether the weather    *)
(* service answers during the request or raises on its first call.         *)
(***************************************************************************)
\* the operation keys in the order of the if/elif chain
OperationKeys == <<"analyze_terrain", "identify_obstacles", "generate_path", "get_terrain_map", "monitor_terrain_changes", "evaluate_crossing_difficulty">>

\* the keys read with message[...], in the order the call evaluates them
required_parameters(operation) ==
  CASE operation = "generate_path" -> <<"start", "end">>
    [] operation = "evaluate_crossing_difficulty" -> <<"location", "obstacle_type">>
    [] OTHER -> <<"location">>

\* str(KeyError(key))
KeyErrorText(key) ==
  CASE key = "location" -> "'location'"
    [] key = "start" -> "'start'"
    [] key = "end" -> "'end'"
    [] key = "obstacle_type" -> "'obstacle_type'"

\* faulty variant of selected_operations: the chain tested from its last branch to its first
selected_operations_last_first(message) ==
  SelectSeq(<<"evaluate_crossing_difficulty", "monitor_terrain_changes", "get_terrain_map", "generate_path", "identify_obstacles", "analyze_terrain">>, LAMBDA k : k \in DOMAIN message)

\* the operation keys present in the message, in the order of the chain: the first is the branch taken
selected_operations(message) == SelectSeq(OperationKeys, LAMBDA k : k \in DOMAIN message)

\* return self.analyze_terrain(...): the cache it leaves and its entry for the location
analysis_returned(ca, db, location) == [ca |-> ca, db |-> db, ret |-> ca[location]]

\* the call of the branch taken, its parameters all present: both caches after it and the value it returns
execute(ca, db, operation, message, rnd) ==
  CASE operation = "analyze_terrain" ->
         analysis_returned(analyze_terrain(ca, message["location"], Get(message, "resolution", "medium"), Get(message, "include_weather", TRUE), rnd.draws[1], rnd.risks), db, message["location"])
    [] operation = "identify_obstacles" ->
         identify_obstacles(ca, db, message["location"], Get(message, "include_weather", TRUE), rnd.draws[1], rnd.risks, rnd.seeds[1])
    [] operation = "generate_path" ->
         generate_path(ca, db, message["start"], message["end"], Get(message, "difficulty", "normal"), Get(message, "include_weather", TRUE), rnd.distance, rnd.route, rnd.draws, rnd.risks, rnd.seeds, rnd.picks)
    [] operation = "get_terrain_map" ->
         get_terrain_map(ca, db, message["location"], Get(message, "format", "geojson"), Get(message, "include_weather", TRUE), rnd.draws[1], rnd.risks, rnd.seeds[1])
    [] operation = "monitor_terrain_changes" ->
         [db |-> db] @@ monitor_terrain_changes(ca, message["location"])
    [] operation = "evaluate_crossing_difficulty" ->
         evaluate_crossing_difficulty(ca, db, message["location"], message["obstacle_type"], rnd.draws[1], rnd.risks, rnd.seeds[1])

\* the first call of the weather service the branch taken makes, if it makes one (asked), and
\* both caches as they are when it makes it
first_weather_call(ca, db, operation, message, rnd) ==
  CASE operation = "analyze_terrain" ->
         [asked |-> Get(message, "include_weather", TRUE), ca |-> ca, db |-> db]
    [] operation \in {"identify_obstacles", "get_terrain_map"} ->
         [asked |-> Get(message, "include_weather", TRUE) /\ message["location"] \notin DOMAIN ca, ca |-> ca, db |-> db]
    [] operation = "generate_path" ->
         IF {message["start"], message["end"]} \subseteq DOMAIN ca
         THEN [asked |-> Get(message, "include_weather", TRUE)] @@ path_obstacles(ca, db, message["start"], message["end"], Get(message, "include_weather", TRUE), rnd.draws, rnd.risks, rnd.seeds)
         ELSE [asked |-> Get(message, "include_weather", TRUE), ca |-> ca, db |-> db]
    [] operation = "monitor_terrain_changes" ->
         [asked |-> message["location"] \in DOMAIN ca, ca |-> ca, db |-> db]
    [] operation = "evaluate_crossing_difficulty" ->
         IF message["location"] \in DOMAIN ca
         THEN [asked |-> TRUE, ca |-> ca, db |-> with_obstacles(ca, db, message["location"], TRUE, rnd.draws[1], rnd.risks, rnd.seeds[1])]
         ELSE [asked |-> TRUE, ca |-> ca, db |-> db]

\* the keys among the required ones that the message lacks
missing_parameters(operation, message) == SelectSeq(required_parameters(operation), LAMBDA k : k \notin DOMAIN message)

\* the request reaches a call of the weather service
asks_weather(ca, db, message, rnd) ==
  /\ selected_operations(message) # << >>
  /\ missing_parameters(selected_operations(message)[1], message) = << >>
  /\ first_weather_call(ca, db, selected_operations(message)[1], message, rnd).asked

\* the branch taken runs to its end (done), unless the weather service raises on its first call (weather)
interruptible(weather, done, weather_up) ==
  IF weather.asked /\ ~weather_up
  THEN [ca |-> weather.ca, db |-> weather.db, outcome |-> "raised", value |-> "weather service unavailable"]
  ELSE [ca |-> done.ca, db |-> done.db, outcome |-> "returned", value |-> done.ret]

\* the branch of an operation key: a KeyError for the first parameter missing, or the call
dispatch_operation(ca, db, operation, message, weather_up, rnd) ==
  IF missing_parameters(operation, message) # << >>
  THEN [ca |-> ca, db |-> db, outcome |-> "raised", value |-> KeyErrorText(missing_parameters(operation, message)[1])]
  ELSE interruptible(first_weather_call(ca, db, operation, message, rnd), execute(ca, db, operation, message, rnd), weather_up)

\* the body of the try block: the value returned, or the exception raised, and both caches then
dispatch(ca, db, message, weather_up, rnd) ==
  IF selected_operations(message) = << >>
  THEN [ca |-> ca, db |-> db, outcome |-> "returned", value |-> [error |-> "Unknown request type"]]
  ELSE dispatch_operation(ca, db, selected_operations(message)[1], message, weather_up, rnd)

\* except Exception as e: return {"error": str(e)}
caught(tried) ==
  IF tried.outcome = "raised"
  THEN [ca |-> tried.ca, db |-> tried.db, outcome |-> "returned", value |-> [error |-> tried.value]]
  ELSE tried

\* faulty variant of process_request: no try block around the dispatch
process_request_uncaught(ca, db, message, weather_up, rnd) == dispatch(ca, db, message, weather_up, rnd)

\* process_request: both caches after the call, and how it ended (always by returning)
process_request(ca, db, message, weather_up, rnd) == caught(dispatch(ca, db, message, weather_up, rnd))

(***************************************************************************)
(* The agent: one action per public method, and the weather changing.      *)
(***************************************************************************)
Seeds == {0, 1}

\* the values a random draw ranges over when the call makes it, one value when it does not
IfDrawn(made, values) == IF made THEN values ELSE {CHOOSE v \in values : TRUE}

\* the distance generate_path computes between its endpoints
Distance(start, end) == _calculate_distance_between_locations(start, end)

\* random.randint(3, 7) and the jitter of the paths of the agent runs
ReadThroughRoute ==
  [num_waypoints |-> 3,
   jitter |-> [i \in 1..MaxWaypoints |-> IF i % 2 = 0 THEN <<20000, -20000>> ELSE <<-20000, 20000>>]]

\* the draws of the analyses that generate_path, get_terrain_map and process_request trigger in
\* the agent runs: the first for start or location, the second for end
ReadThroughDraws == << Draw({"mountain", "river", "forest"}, 100, 1500, 45, 2, 900, "clay"), Draw({"desert", "swamp", "plains"}, 1300, 1300, 10, 0, 500, "rocky") >>

\* their seeds
ReadThroughSeeds == <<0, 1>>

\* the endpoints the agent runs ask generate_path for: a location to itself, and both ways between two
PathEndpoints == {<<"r1", "r1">>, <<"r1", "obstacle_type_x">>, <<"obstacle_type_x", "r1">>}

\* the request objects the agent runs hand to process_request
Messages ==
  { [location |-> "r1"],
    [analyze_terrain |-> TRUE],
    [generate_path |-> TRUE, start |-> "r1"],
    [evaluate_crossing_difficulty |-> TRUE, location |-> "r1"],
    [analyze_terrain |-> FALSE, evaluate_crossing_difficulty |-> FALSE, location |-> "r1", obstacle_type |-> "crevasse"],
    [identify_obstacles |-> TRUE, location |-> "obstacle_type_x", include_weather |-> FALSE],
    [generate_path |-> TRUE, start |-> "r1", end |-> "obstacle_type_x"],
    [get_terrain_map |-> TRUE, location |-> "r1", format |-> "kml"],
    [monitor_terrain_changes |-> TRUE, location |-> "r1"],
    [evaluate_crossing_difficulty |-> TRUE, location |-> "r1", obstacle_type |-> "steep_slope"] }

\* both caches, as the record kept in before
Caches == [ca |-> current_analysis, db |-> obstacle_database]

\* a call ends: both caches are as it leaves them, and result holds the call and the value returned
Returns(r, call) ==
  /\ current_analysis' = r.ca
  /\ obstacle_database' = r.db
  /\ result' = call @@ [value |-> r.ret]

Init ==
  /\ current_analysis = EmptyDict
  /\ obstacle_database = EmptyDict
  /\ weather_agent \in [Locations -> AgentWeathers]
  /\ clock = 0
  /\ result = [op |-> "init"]
  /\ before = Caches

AnalyzeTerrain ==
  /\ clock < MaxClock
  /\ \E location \in Locations, include_weather \in BOOLEAN, draw \in AgentDraws :
       \E risks \in IfDrawn(include_weather, WeatherRiskLists) :
         /\ current_analysis' = analyze_terrain(current_analysis, location, "medium", include_weather, draw, risks)
         /\ result' = [op |-> "analyze_terrain", location |-> location, include_weather |-> include_weather, value |-> current_analysis'[location]]
  /\ clock' = clock + 1
  /\ before' = Caches
  /\ UNCHANGED <<obstacle_database, weather_agent>>

IdentifyObstacles ==
  /\ clock < MaxClock
  /\ \E location \in Locations, include_weather \in BOOLEAN, seed \in Seeds :
       \E draw \in IfDrawn(location \notin DOMAIN current_analysis, AgentDraws) :
         \E risks \in IfDrawn(location \notin DOMAIN current_analysis /\ include_weather, WeatherRiskLists) :
           LET r == identify_obstacles(current_analysis, obstacle_database, location, include_weather, draw, risks, seed)
           IN /\ current_analysis' = r.ca
              /\ obstacle_database' = r.db
              /\ result' = [op |-> "identify_obstacles", location |-> location, include_weather |-> include_weather, value |-> r.ret]
  /\ clock' = clock + 1
  /\ before' = Caches
  /\ UNCHANGED weather_agent

GeneratePath ==
  /\ clock < MaxClock
  /\ \E endpoints \in PathEndpoints, include_weather \in BOOLEAN :
       \E picks \in SamplePicks(Len(all_obstacles(path_caches(current_analysis, obstacle_database, endpoints[1], endpoints[2], include_weather, ReadThroughDraws, << >>, ReadThroughSeeds).db, endpoints[1], endpoints[2]))) :
         Returns(generate_path(current_analysis, obstacle_database, endpoints[1], endpoints[2], "normal", include_weather, Distance(endpoints[1], endpoints[2]), ReadThroughRoute, ReadThroughDraws, << >>, ReadThroughSeeds, picks),
                 [op |-> "generate_path", start |-> endpoints[1], end |-> endpoints[2], include_weather |-> include_weather, picks |-> picks])
  /\ clock' = clock + 1
  /\ before' = Caches
  /\ UNCHANGED weather_agent

GetTerrainMap ==
  /\ clock < MaxClock
  /\ \E location \in Locations, format \in Formats, include_weather \in BOOLEAN :
       Returns(get_terrain_map(current_analysis, obstacle_database, location, format, include_weather, ReadThroughDraws[1], << >>, ReadThroughSeeds[1]),
               [op |-> "get_terrain_map", location |-> location, format |-> format, include_weather |-> include_weather])
  /\ clock' = clock + 1
  /\ before' = Caches
  /\ UNCHANGED weather_agent

MonitorTerrainChanges ==
  /\ clock < MaxClock
  /\ \E location \in Locations :
       LET r == monitor_terrain_changes(current_analysis, location)
       IN /\ current_analysis' = r.ca
          /\ result' = [op |-> "monitor_terrain_changes", location |-> location, weather_calls |-> r.weather_calls, value |-> r.ret]
  /\ clock' = clock + 1
  /\ before' = Caches
  /\ UNCHANGED <<obstacle_database, weather_agent>>

EvaluateCrossingDifficulty ==
  /\ clock < MaxClock
  /\ \E location \in Locations, obstacle_type \in QueryTypes :
       \E seed \in IfDrawn(location \notin DOMAIN obstacle_database, Seeds) :
         \E draw \in IfDrawn(location \notin DOMAIN current_analysis, AgentDraws) :
           \E risks \in IfDrawn(location \notin DOMAIN current_analysis, WeatherRiskLists) :
             LET r == evaluate_crossing_difficulty(current_analysis, obstacle_database, location, obstacle_type, draw, risks, seed)
             IN /\ current_analysis' = r.ca
                /\ obstacle_database' = r.db
                /\ result' = [op |-> "evaluate_crossing_difficulty", location |-> location, obstacle_type |-> obstacle_type, value |-> r.ret]
  /\ clock' = clock + 1
  /\ before' = Caches
  /\ UNCHANGED weather_agent

\* the random draws of a request of the agent runs
RequestDraws(message) ==
  [draws |-> ReadThroughDraws,
   risks |-> << >>,
   seeds |-> ReadThroughSeeds,
   picks |-> <<1>>,
   route |-> ReadThroughRoute,
   distance |-> IF {"start", "end"} \subseteq DOMAIN message THEN Distance(message["start"], message["end"]) ELSE 0]

\* process_request ends: both caches are as it leaves them, and result holds the request and the value returned
Responds(r, message, weather_up) ==
  /\ current_analysis' = r.ca
  /\ obstacle_database' = r.db
  /\ result' = [op |-> "process_request", message |-> message, weather_up |-> weather_up, outcome |-> r.outcome, value |-> r.value]

ProcessRequest ==
  /\ clock < MaxClock
  /\ \E message \in Messages :
       \E weather_up \in IfDrawn(asks_weather(current_analysis, obstacle_database, message, RequestDraws(message)), BOOLEAN) :
         Responds(process_request(current_analysis, obstacle_database, message, weather_up, RequestDraws(message)), message, weather_up)
  /\ clock' = clock + 1
  /\ before' = Caches
  /\ UNCHANGED weather_agent

\* the weather service reports new conditions for a location
WeatherChange ==
  \E location \in Locations, weather \in AgentWeathers :
    /\ weather # weather_agent[location]
    /\ weather_agent' = [weather_agent EXCEPT ![location] = weather]
    /\ result' = [op |-> "weather_change"]
    /\ before' = Caches
    /\ UNCHANGED <<current_analysis, obstacle_database, clock>>

Next ==
  \/ AnalyzeTerrain
  \/ IdentifyObstacles
  \/ GeneratePath
  \/ GetTerrainMap
  \/ MonitorTerrainChanges
  \/ EvaluateCrossingDifficulty
  \/ ProcessRequest
  \/ WeatherChange

Spec == Init /\ [][Next]_vars

(***************************************************************************)
(* The rule tables on their own: one application of the Interaction        *)
(* Analyzer, of the crossing evaluation, of the obstacle list, of the      *)
(* change rules, of the path times or of the waypoints, to inputs drawn    *)
(* from the threshold sets.                                                *)
(***************************************************************************)
RuleInit ==
  /\ current_analysis = EmptyDict
  /\ obstacle_database = EmptyDict
  /\ weather_agent = [l \in Locations |-> WeatherCalm]
  /\ clock = 0
  /\ result = [op |-> "init"]
  /\ before = Caches

RuleInteractions ==
  /\ result.op = "init"
  /\ \E draw \in RuleDraws, weather \in RuleWeathers :
       LET terrain == build_analysis("r1", "medium", FALSE, draw, << >>)
       IN result' = [op |-> "_analyze_terrain_weather_interactions", terrain |-> terrain, weather |-> weather, value |-> _analyze_terrain_weather_interactions(terrain, weather)]
  /\ UNCHANGED <<current_analysis, obstacle_database, weather_agent, clock, before>>

RuleCrossing ==
  /\ result.op = "init"
  /\ \E obstacle_type \in OBSTACLE_TYPES, weather \in CrossingWeathers, seed \in Seeds :
       LET stored == << _create_obstacle(obstacle_type, seed) >>
       IN result' = [op |-> "crossing_result", obstacle_type |-> obstacle_type, stored |-> stored, weather |-> weather, value |-> crossing_result(stored, "r1", obstacle_type, weather)]
  /\ UNCHANGED <<current_analysis, obstacle_database, weather_agent, clock, before>>

RuleObstacles ==
  /\ result.op = "init"
  /\ \E draw \in ObstacleDraws, include_weather \in BOOLEAN, analysed_with_weather \in BOOLEAN, seed \in Seeds :
       \E weather \in IfDrawn(analysed_with_weather, ObstacleWeathers) :
         LET terrain == build_analysis("r1", "medium", FALSE, draw, << >>)
             analysis == IF analysed_with_weather THEN with_weather(terrain, weather, << >>) ELSE terrain
         IN result' = [op |-> "build_obstacles", analysis |-> analysis, include_weather |-> include_weather, value |-> build_obstacles(analysis, "r1", include_weather, seed)]
  /\ UNCHANGED <<current_analysis, obstacle_database, weather_agent, clock, before>>

RuleMonitor ==
  /\ result.op = "init"
  /\ \E draw \in MonitorDraws, analysed_with_weather \in BOOLEAN, current_weather \in MonitorWeathers :
       \E old_weather \in IfDrawn(analysed_with_weather, MonitorWeathers) :
         LET terrain == build_analysis("r1", "medium", FALSE, draw, << >>)
             last_analysis == IF analysed_with_weather THEN with_weather(terrain, old_weather, << >>) ELSE terrain
         IN result' = [op |-> "monitor_result", last_analysis |-> last_analysis, current_weather |-> current_weather, value |-> monitor_result(last_analysis, "r1", current_weather)]
  /\ UNCHANGED <<current_analysis, obstacle_database, weather_agent, clock, before>>

RulePathTimes ==
  /\ result.op = "init"
  /\ \E distance \in PathDistances, difficulty \in Difficulties, include_weather \in BOOLEAN, start_weather \in PathWeathers, end_weather \in PathWeathers :
       result' = [op |-> "path_times", distance |-> distance, difficulty |-> difficulty, include_weather |-> include_weather, start_weather |-> start_weather, end_weather |-> end_weather, value |-> path_times(distance, difficulty, include_weather, start_weather, end_weather)]
  /\ UNCHANGED <<current_analysis, obstacle_database, weather_agent, clock, before>>

RuleWaypoints ==
  /\ result.op = "init"
  /\ \E start_hash \in HashSamples, end_hash \in HashSamples, num_waypoints \in 3..MaxWaypoints, jitter \in Jitters :
       result' = [op |-> "_generate_waypoints", start_coords |-> coordinates_of_hash(start_hash), end_coords |-> coordinates_of_hash(end_hash), num_waypoints |-> num_waypoints,
                  value |-> waypoints_between(coordinates_of_hash(start_hash), coordinates_of_hash(end_hash), num_waypoints, jitter)]
  /\ UNCHANGED <<current_analysis, obstacle_database, weather_agent, clock, before>>

RuleWaypointTime ==
  /\ result.op = "init"
  /\ \E start_hash \in HashSamples, end_hash \in HashSamples, jitter \in Jitters, waypoint_id \in 0..4, length \in 0..3, from_start \in BOOLEAN :
       result' = [op |-> "_calculate_waypoint_time", waypoint_id |-> waypoint_id,
                  waypoints |-> waypoints_after(length, coordinates_of_hash(start_hash), coordinates_of_hash(end_hash), 3, jitter),
                  start_coords |-> IF from_start THEN coordinates_of_hash(start_hash) ELSE None,
                  value |-> _calculate_waypoint_time(waypoint_id, waypoints_after(length, coordinates_of_hash(start_hash), coordinates_of_hash(end_hash), 3, jitter),
                                                     IF from_start THEN coordinates_of_hash(start_hash) ELSE None)]
  /\ UNCHANGED <<current_analysis, obstacle_database, weather_agent, clock, before>>

RuleNext ==
  \/ RuleInteractions
  \/ RuleCrossing
  \/ RuleObstacles
  \/ RuleMonitor
  \/ RulePathTimes
  \/ RuleWaypoints
  \/ RuleWaypointTime

SpecRules == RuleInit /\ [][RuleNext]_vars

(***************************************************************************)
(* Properties of the rule tables (checked under SpecRules).                *)
(***************************************************************************)
\* the last step applied the Interaction Analyzer
IsInteractions == result.op = "_analyze_terrain_weather_interactions"

\* the last step applied the crossing evaluation and it found the obstacle
IsCrossing == result.op = "crossing_result" /\ "evaluations" \in DOMAIN result.value

\* the interaction types of the nine rules of section 4.2, in the order of the table
StatedRuleTypes == <<"increased_landslide_risk", "rising_water_levels", "slippery_ground", "falling_branches", "dangerous_ridgelines", "ice_formation", "slippery_surfaces", "extreme_heat_danger", "reduced_visibility">>

\* the condition of the k-th rule of section 4.2
StatedRuleCondition(k, t, w) ==
  CASE k = 1 -> "mountain" \in t.terrain_types /\ w.precipitation > 10
    [] k = 2 -> "river" \in t.terrain_types /\ w.precipitation > 10
    [] k = 3 -> t.soil_type = "clay" /\ w.precipitation > 10
    [] k = 4 -> "forest" \in t.terrain_types /\ w.wind_speed > 30
    [] k = 5 -> t.elevation.max > 1000 /\ w.wind_speed > 30
    [] k = 6 -> "river" \in t.terrain_types /\ w.temperature < 0
    [] k = 7 -> w.temperature < 0
    [] k = 8 -> "desert" \in t.terrain_types /\ w.temperature > 35
    [] k = 9 -> w.visibility < 5

\* the position of an interaction type in the table
StatedRuleIndex(type) == CHOOSE k \in 1..Len(StatedRuleTypes) : StatedRuleTypes[k] = type

\* the obstacle types of a list
TypesIn(list) == {list[i].type : i \in 1..Len(list)}

\* the interactions of a given type in a list
OfType(list, type) == {i \in 1..Len(list) : list[i].type = type}

\* C1: the Interaction Analyzer returns the interaction of a rule exactly when the rule's
\* condition holds, once per fired rule, and in the order the rules are declared
C1_AllMatchingRulesFire ==
  IsInteractions =>
    LET out == result.value
    IN /\ \A k \in 1..Len(StatedRuleTypes) :
            Cardinality(OfType(out, StatedRuleTypes[k])) = IF StatedRuleCondition(k, result.terrain, result.weather) THEN 1 ELSE 0
       /\ \A i \in 1..Len(out) : out[i].type \in {StatedRuleTypes[k] : k \in 1..Len(StatedRuleTypes)}
       /\ \A i, j \in 1..Len(out) : i < j => StatedRuleIndex(out[i].type) < StatedRuleIndex(out[j].type)

\* C1 witness: a run of the analyzer in which five rules fire together
C1_Witness == IsInteractions /\ Len(result.value) >= 5

\* C2: with visibility < 5 the reduced_visibility interaction is high iff the terrain's slope > 30;
\* with temperature < 0 the slippery_surfaces interaction is high iff the terrain's slope > 20
C2_SeverityFollowsTerrainSlope ==
  IsInteractions =>
    /\ result.weather.visibility < 5 =>
         \E i \in OfType(result.value, "reduced_visibility") :
           result.value[i].severity = IF result.terrain.slope > 30 THEN "high" ELSE "medium"
    /\ result.weather.temperature < 0 =>
         \E i \in OfType(result.value, "slippery_surfaces") :
           result.value[i].severity = IF result.terrain.slope > 20 THEN "high" ELSE "medium"

\* C3: the landslide interaction is high iff precipitation > 30 and the rising-water interaction
\* is high iff precipitation > 40, each present when its terrain tag is and precipitation > 10
C3_PrecipitationSeverities ==
  IsInteractions =>
    LET out == result.value
        p == result.weather.precipitation
        types == result.terrain.terrain_types
    IN /\ ("mountain" \in types /\ p > 10) =>
            /\ OfType(out, "increased_landslide_risk") # {}
            /\ \A i \in OfType(out, "increased_landslide_risk") : out[i].severity = IF p > 30 THEN "high" ELSE "medium"
       /\ ("river" \in types /\ p > 10) =>
            /\ OfType(out, "rising_water_levels") # {}
            /\ \A i \in OfType(out, "rising_water_levels") : out[i].severity = IF p > 40 THEN "high" ELSE "medium"
       /\ (types = {"river", "plains", "mountain"} /\ p = 45) =>
            /\ \E i \in OfType(out, "increased_landslide_risk") : out[i].severity = "high"
            /\ \E i \in OfType(out, "rising_water_levels") : out[i].severity = "high"

\* C3 witness: mountain and river terrain with precipitation in (30, 40]: landslide high, rising water medium
C3_Witness ==
  /\ IsInteractions
  /\ {"mountain", "river"} \subseteq result.terrain.terrain_types
  /\ result.weather.precipitation > 30 /\ result.weather.precipitation <= 40
  /\ \E i \in OfType(result.value, "increased_landslide_risk") : result.value[i].severity = "high"
  /\ \E i \in OfType(result.value, "rising_water_levels") : result.value[i].severity = "medium"

\* the base score of section 4.3
StatedBase(type) ==
  CASE type = "steep_slope" -> 3 [] type = "water_crossing" -> 4 [] type = "dense_vegetation" -> 2
    [] type = "flash_flood" -> 5 [] type = "sandy_terrain" -> 2 [] type = "boggy_ground" -> 3
    [] type = "low_visibility_area" -> 3 [] type = "wind_hazard" -> 2 [] OTHER -> 3

\* the weather modifier of section 4.3
StatedModifier(type, w) ==
    (IF type = "water_crossing" /\ w.precipitation > 20 THEN 2 ELSE 0)
  + (IF type = "water_crossing" /\ w.temperature < 5 THEN 1 ELSE 0)
  + (IF type = "steep_slope" /\ w.precipitation > 10 THEN 2 ELSE 0)
  + (IF type = "steep_slope" /\ w.wind_speed > 30 THEN 1 ELSE 0)
  + (IF type = "dense_vegetation" /\ w.wind_speed > 20 THEN 1 ELSE 0)
  + (IF w.visibility < 5 THEN 1 ELSE 0)

\* C4: every evaluation has final_difficulty = base_difficulty + weather_modifier, with the base
\* score of its type and the sum of the weather modifiers that apply
C4_FinalIsBasePlusModifier ==
  IsCrossing =>
    \A i \in 1..Len(result.value.evaluations) :
      LET e == result.value.evaluations[i]
      IN /\ e.base_difficulty = StatedBase(result.obstacle_type)
         /\ e.weather_modifier = StatedModifier(result.obstacle_type, result.weather)
         /\ e.final_difficulty = e.base_difficulty + e.weather_modifier

\* C4 witness: water_crossing under precipitation 25, temperature 3, visibility 10: modifier 3, final 7
C4_Witness ==
  /\ IsCrossing
  /\ result.obstacle_type = "water_crossing"
  /\ result.weather.precipitation = 25 /\ result.weather.temperature = 3 /\ result.weather.visibility = 10
  /\ result.value.evaluations[1].weather_modifier = 3
  /\ result.value.evaluations[1].final_difficulty = 7

\* the tier of a score, section 4.3
StatedTier(score) ==
  CASE score <= 2 -> "easy"
    [] score \in 3..4 -> "moderate"
    [] score \in 5..6 -> "difficult"
    [] score > 6 -> "extreme"

\* C5: the difficulty_rating of an evaluation is the tier of its final_difficulty
\* (<= 2 easy, 3..4 moderate, 5..6 difficult, > 6 extreme), and every integer score has one tier
C5_RatingIsTierOfScore ==
  /\ IsCrossing =>
       \A i \in 1..Len(result.value.evaluations) :
         result.value.evaluations[i].difficulty_rating = StatedTier(result.value.evaluations[i].final_difficulty)
  /\ \A score \in -3..12 :
       /\ Cardinality({t \in 1..4 : (t = 1 /\ score <= 2) \/ (t = 2 /\ score \in 3..4) \/ (t = 3 /\ score \in 5..6) \/ (t = 4 /\ score > 6)}) = 1
       /\ _score_to_difficulty(score) = StatedTier(score)

\* C5 witness: an evaluation on a tier boundary, score 6, rated difficult
C5_Witness ==
  /\ IsCrossing
  /\ result.value.evaluations[1].final_difficulty = 6
  /\ result.value.evaluations[1].difficulty_rating = "difficult"

\* the tiers from easiest to hardest
TierRank(tier) == CASE tier = "easy" -> 1 [] tier = "moderate" -> 2 [] tier = "difficult" -> 3 [] tier = "extreme" -> 4

\* the weather snapshots that differ from w in precipitation only, with at least as much of it
Wetter(w) == {[w EXCEPT !.precipitation = p] : p \in {q \in {x.precipitation : x \in CrossingWeathers} : q >= w.precipitation}}

\* C6: for water_crossing and steep_slope, more precipitation (all else equal) never lowers the
\* final score nor the tier
C6_MonotoneInPrecipitation ==
  (IsCrossing /\ result.obstacle_type \in {"water_crossing", "steep_slope"}) =>
    \A w2 \in Wetter(result.weather) :
      LET e1 == result.value.evaluations[1]
          e2 == crossing_result(result.stored, "r1", result.obstacle_type, w2).evaluations[1]
      IN /\ e1.final_difficulty <= e2.final_difficulty
         /\ TierRank(e1.difficulty_rating) <= TierRank(e2.difficulty_rating)

\* C6 witness: a steep_slope evaluated below the precipitation threshold, whose score rises above it
C6_Witness ==
  /\ IsCrossing
  /\ result.obstacle_type = "steep_slope"
  /\ result.weather.precipitation = 10
  /\ \E w2 \in Wetter(result.weather) :
       crossing_result(result.stored, "r1", result.obstacle_type, w2).evaluations[1].final_difficulty > result.value.evaluations[1].final_difficulty

\* the last step built an obstacle list
IsObstacles == result.op = "build_obstacles"

\* weather is supplied to the Obstacle Generator
WeatherSupplied == result.include_weather /\ "weather_conditions" \in DOMAIN result.analysis

\* C11: with weather supplied the list holds low_visibility_area iff visibility < 3 and wind_hazard
\* iff wind_speed > 40, the wind_hazard's risk is "falling branches" iff the terrain has "forest"
\* ("reduced stability" otherwise) and its wind_speed_kph is the weather's wind_speed; without
\* weather none of flash_flood, low_visibility_area, wind_hazard is in the list
C11_WeatherObstaclesFollowWeather ==
  IsObstacles =>
    LET obstacles == result.value
        found == TypesIn(obstacles)
    IN IF WeatherSupplied
       THEN LET w == result.analysis.weather_conditions
            IN /\ "low_visibility_area" \in found <=> w.visibility < 3
               /\ "wind_hazard" \in found <=> w.wind_speed > 40
               /\ \A i \in 1..Len(obstacles) :
                    obstacles[i].type = "wind_hazard" =>
                      /\ obstacles[i].details.risk = IF "forest" \in result.analysis.terrain_types THEN "falling branches" ELSE "reduced stability"
                      /\ obstacles[i].details.wind_speed_kph = w.wind_speed
       ELSE found \cap {"flash_flood", "low_visibility_area", "wind_hazard"} = {}

\* C11 witness: weather supplied with wind 41 over forest: a wind_hazard of 41 kph with falling branches
C11_Witness ==
  /\ IsObstacles
  /\ WeatherSupplied
  /\ "forest" \in result.analysis.terrain_types
  /\ result.analysis.weather_conditions.visibility >= 3
  /\ \E i \in 1..Len(result.value) :
       /\ result.value[i].type = "wind_hazard"
       /\ result.value[i].details.risk = "falling branches"
       /\ result.value[i].details.wind_speed_kph = 41

\* the last step compared a cached analysis with the current weather
IsComparison == result.op = "monitor_result"

\* the change types of section 4.4, in the order of the table
StatedChangeTypes == <<"increased_water_levels", "fallen_trees", "snow_melt", "freezing_conditions">>

\* the rule of the k-th change of section 4.4, for the old and the new snapshot and the terrain types
StatedChangeRule(k, old, new, types) ==
  CASE k = 1 -> new.precipitation > old.precipitation + 20
    [] k = 2 -> new.wind_speed > old.wind_speed + 15 /\ "forest" \in types
    [] k = 3 -> old.temperature < 0 /\ new.temperature > 5
    [] k = 4 -> old.temperature > 0 /\ new.temperature < 0

\* C17: for a cached analysis with a weather snapshot, detected_changes holds exactly the changes
\* whose rule holds between that snapshot and the current weather, each once, and
\* requires_reanalysis is true iff detected_changes is not empty
C17_ChangesFollowTheirRules ==
  (IsComparison /\ "weather_conditions" \in DOMAIN result.last_analysis) =>
    LET changes == result.value.detected_changes
        old == result.last_analysis.weather_conditions
        new == result.current_weather
    IN /\ \A k \in 1..Len(StatedChangeTypes) :
            Cardinality(OfType(changes, StatedChangeTypes[k])) = IF StatedChangeRule(k, old, new, result.last_analysis.terrain_types) THEN 1 ELSE 0
       /\ \A i \in 1..Len(changes) : changes[i].type \in {StatedChangeTypes[k] : k \in 1..Len(StatedChangeTypes)}
       /\ result.value.requires_reanalysis <=> changes # << >>

\* C17 witness: more rain, more wind over forest and a thaw: three changes and a reanalysis required
C17_Witness ==
  /\ IsComparison
  /\ "weather_conditions" \in DOMAIN result.last_analysis
  /\ TypesIn(result.value.detected_changes) = {"increased_water_levels", "fallen_trees", "snow_melt"}
  /\ result.value.requires_reanalysis

\* C18: no result of the comparison holds both a snow_melt and a freezing_conditions change
C18_OneTemperatureDirection ==
  IsComparison => ~ ({"snow_melt", "freezing_conditions"} \subseteq TypesIn(result.value.detected_changes))

\* C18 witness: a comparison from above zero to below it: freezing_conditions without snow_melt
C18_Witness ==
  /\ IsComparison
  /\ "weather_conditions" \in DOMAIN result.last_analysis
  /\ result.last_analysis.weather_conditions.temperature > 0
  /\ result.current_weather.temperature < 0
  /\ "freezing_conditions" \in TypesIn(result.value.detected_changes)
  /\ "snow_melt" \notin TypesIn(result.value.detected_changes)

\* the last step computed the times of a path
IsPathTimes == result.op = "path_times"

\* the multiplier of a difficulty, in tenths (section 4.4)
StatedMultiplier(difficulty) ==
  CASE difficulty = "easy" -> 7 [] difficulty = "normal" -> 10 [] difficulty = "hard" -> 15 [] difficulty = "extreme" -> 20

\* the sum of the percentages of the delay conditions that hold on the average of two snapshots
\* (an average exceeds a threshold iff the sum exceeds twice the threshold)
StatedDelayPercent(s, e) ==
    (IF s.wind_speed + e.wind_speed > 60 THEN 20 ELSE 0)
  + (IF s.precipitation + e.precipitation > 40 THEN 30 ELSE 0)
  + (IF s.visibility + e.visibility < 10 THEN 25 ELSE 0)
  + (IF s.temperature + e.temperature < 0 \/ s.temperature + e.temperature > 70 THEN 10 ELSE 0)

\* C20: total time = base time + weather delay, base time = distance x the multiplier of the
\* difficulty, weather delay = base time x the summed percentages of the delay conditions that
\* hold on the average weather, hence at most 85% of base time, and 0 without weather
\* (distance in 1/100 km, multiplier in tenths, times in 1/100000 h)
C20_TotalIsBasePlusSummedDelays ==
  (IsPathTimes /\ result.difficulty \in {"easy", "normal", "hard", "extreme"}) =>
    LET t == result.value
    IN /\ t.final_time = t.estimated_time + t.weather_delay
       /\ t.estimated_time = result.distance * StatedMultiplier(result.difficulty) * 100
       /\ t.estimated_time % 100 = 0
       /\ t.weather_delay = (t.estimated_time \div 100) * (IF result.include_weather THEN StatedDelayPercent(result.start_weather, result.end_weather) ELSE 0)
       /\ t.weather_delay <= (t.estimated_time \div 100) * 85
       /\ ~result.include_weather => t.weather_delay = 0

\* C20 witness: a hard path of 111.11 km under all four delay conditions: delay 85% of base time
C20_Witness ==
  /\ IsPathTimes
  /\ result.include_weather
  /\ result.difficulty = "hard"
  /\ result.distance = 11111
  /\ StatedDelayPercent(result.start_weather, result.end_weather) = 85
  /\ result.value.estimated_time = 16666500
  /\ result.value.weather_delay = 14166525
  /\ result.value.final_time = 30833025

\* the last step generated the waypoints of a path
IsWaypoints == result.op = "_generate_waypoints"

\* the minutes, in tenths, of a distance in hundredths of a kilometre at 3 km/h
StatedMinutes(distance) == (distance * 60 * 10) \div (3 * 100)

\* the point waypoint i is reached from: the start for the first, else the waypoint before
PreviousPoint(i) == IF i = 1 THEN result.start_coords ELSE result.value[i - 1].coordinates

\* C21: each waypoint's estimated_time_from_previous is the distance from the previous waypoint
\* (from the start for the first) at 3 km/h, in minutes, so it is not the same for all distances
C21_WaypointTimeFollowsDistance ==
  IsWaypoints =>
    \A i \in 1..Len(result.value) :
      result.value[i].estimated_time_from_previous = StatedMinutes(_calculate_distance_between_coordinates(PreviousPoint(i), result.value[i].coordinates))

(***************************************************************************)
(* Properties of the agent (checked under Spec).                           *)
(***************************************************************************)
\* the last step was a call of evaluate_crossing_difficulty
IsEvaluate == result.op = "evaluate_crossing_difficulty"

\* the last step was a call of identify_obstacles
IsIdentify == result.op = "identify_obstacles"

\* C7: evaluate_crossing_difficulty returns the structured error, with a recommendation and no
\* evaluations, when the location's obstacle list (generated if absent) has no obstacle of the
\* requested type, and a result with evaluations and no error otherwise
C7_MissingObstacleIsReported ==
  IsEvaluate =>
    LET v == result.value
    IN /\ result.location \in DOMAIN obstacle_database
       /\ IF result.obstacle_type \in TypesIn(obstacle_database[result.location])
          THEN /\ "evaluations" \in DOMAIN v
               /\ Len(v.evaluations) >= 1
               /\ "error" \notin DOMAIN v
          ELSE /\ "error" \in DOMAIN v
               /\ v.error = "No matching obstacles found"
               /\ "recommendation" \in DOMAIN v
               /\ "evaluations" \notin DOMAIN v

\* C7 witness: the first call of a run asks for a type the freshly generated list lacks
C7_Witness ==
  /\ IsEvaluate
  /\ clock = 1
  /\ result.obstacle_type \notin TypesIn(obstacle_database[result.location])
  /\ "error" \in DOMAIN result.value

\* C8: the list identify_obstacles returns holds steep_slope iff "mountain", water_crossing iff
\* "river", dense_vegetation iff vegetation density > 0.7, sandy_terrain iff "desert" and
\* boggy_ground iff "swamp", for every location identifier
C8_TerrainObstaclesFollowTerrain ==
  IsIdentify =>
    LET analysis == current_analysis[result.location]
        found == TypesIn(result.value.obstacles)
    IN /\ "steep_slope" \in found <=> "mountain" \in analysis.terrain_types
       /\ "water_crossing" \in found <=> "river" \in analysis.terrain_types
       /\ "dense_vegetation" \in found <=> analysis.vegetation_density > 700
       /\ "sandy_terrain" \in found <=> "desert" \in analysis.terrain_types
       /\ "boggy_ground" \in found <=> "swamp" \in analysis.terrain_types

\* C9: whenever the weather of the location has precipitation > 30, identify_obstacles with
\* weather included returns a flash_flood obstacle of severity extreme
C9_FlashFloodUnderHeavyRain ==
  (IsIdentify /\ result.include_weather /\ weather_agent[result.location].precipitation > 30) =>
    \E i \in 1..Len(result.value.obstacles) :
      /\ result.value.obstacles[i].type = "flash_flood"
      /\ result.value.obstacles[i].severity = "extreme"

\* C10: every result of identify_obstacles has exactly one generic obstacle, in first place, and
\* an obstacle_count equal to the length of the returned and stored list, hence at least 1
C10_OneGenericObstacleFirst ==
  /\ IsIdentify =>
       LET obstacles == result.value.obstacles
       IN /\ result.value.obstacle_count = Len(obstacles)
          /\ result.value.obstacle_count >= 1
          /\ obstacles[1].type = "generic_obstacle"
          /\ Cardinality({i \in 1..Len(obstacles) : obstacles[i].type = "generic_obstacle"}) = 1
          /\ obstacle_database[result.location] = obstacles
  /\ \A l \in DOMAIN obstacle_database :
       /\ Len(obstacle_database[l]) >= 1
       /\ obstacle_database[l][1].type = "generic_obstacle"

\* C10 witness: identify_obstacles returns the generic obstacle followed by six others
C10_Witness ==
  /\ IsIdentify
  /\ result.value.obstacle_count = 7
  /\ result.value.obstacles[1].type = "generic_obstacle"

\* the last step was a call of analyze_terrain
IsAnalyze == result.op = "analyze_terrain"

\* C12: identify_obstacles stores exactly the list it returns under the location, also when a
\* list was stored already, and leaves the lists of the other locations, and the analysis of the
\* location when it had one, as they were
C12_IdentifyOverwritesOnlyItsList ==
  IsIdentify =>
    /\ obstacle_database[result.location] = result.value.obstacles
    /\ DOMAIN obstacle_database = DOMAIN before.db \cup {result.location}
    /\ \A l \in DOMAIN before.db \ {result.location} : obstacle_database[l] = before.db[l]
    /\ result.location \in DOMAIN before.ca => current_analysis[result.location] = before.ca[result.location]

\* C12 witness: identify_obstacles replaces a stored list by a different one while another
\* location has a stored list too
C12_Witness ==
  /\ IsIdentify
  /\ result.location \in DOMAIN before.db
  /\ result.location \in DOMAIN before.ca
  /\ before.db[result.location] # result.value.obstacles
  /\ obstacle_database[result.location] = result.value.obstacles
  /\ DOMAIN before.db \ {result.location} # {}

\* C13: the stored obstacles of a location are those of its stored analysis: after analyze_terrain
\* the stored list is one the new snapshot yields, and in every state a stored steep_slope
\* obstacle exists iff the stored analysis has "mountain"
C13_ObstaclesFollowReanalysis ==
  /\ \A l \in DOMAIN obstacle_database :
       /\ l \in DOMAIN current_analysis
       /\ "steep_slope" \in TypesIn(obstacle_database[l]) <=> "mountain" \in current_analysis[l].terrain_types
  /\ (IsAnalyze /\ result.location \in DOMAIN before.db) =>
       \E include_weather \in BOOLEAN, seed \in Seeds :
         obstacle_database[result.location] = build_obstacles(current_analysis[result.location], result.location, include_weather, seed)

\* the last step was a call of monitor_terrain_changes
IsMonitor == result.op = "monitor_terrain_changes"

\* the last step was a call of get_terrain_map
IsMap == result.op = "get_terrain_map"

\* the last step was a call of generate_path
IsPath == result.op = "generate_path"

\* the last step was a call of process_request
IsRequest == result.op = "process_request"

\* the operation the last step ran, directly or through process_request ("none" when it ran none)
Operation ==
  IF IsRequest
  THEN (IF \E k \in DOMAIN result.message : k \in {OperationKeys[i] : i \in 1..Len(OperationKeys)}
        THEN (CHOOSE i \in 1..Len(OperationKeys) : OperationKeys[i] \in DOMAIN result.message /\ \A j \in 1..(i - 1) : OperationKeys[j] \notin DOMAIN result.message)
        ELSE 0)
  ELSE 0

\* the name of that operation
OperationName == IF IsRequest THEN (IF Operation = 0 THEN "none" ELSE OperationKeys[Operation]) ELSE result.op

\* the locations whose cached analysis is not the one cached when the last call began
Reanalysed == {l \in DOMAIN before.ca : current_analysis[l] # before.ca[l]}

\* C14: a cached analysis, timestamp included, is never replaced by identify_obstacles,
\* get_terrain_map, generate_path, evaluate_crossing_difficulty or monitor_terrain_changes, called
\* directly or through process_request: only analyze_terrain for the location replaces it
C14_OnlyAnalyzeReplacesTheSnapshot ==
  /\ DOMAIN before.ca \subseteq DOMAIN current_analysis
  /\ OperationName \in {"identify_obstacles", "get_terrain_map", "generate_path", "evaluate_crossing_difficulty", "monitor_terrain_changes"} => Reanalysed = {}
  /\ Reanalysed # {} =>
       /\ OperationName = "analyze_terrain"
       /\ Reanalysed = {IF IsRequest THEN result.message["location"] ELSE result.location}

\* C14 witness: get_terrain_map at time 1 for a location analysed at time 0 leaves the timestamp 0
C14_Witness ==
  /\ IsMap
  /\ clock = 2
  /\ result.location \in DOMAIN before.ca
  /\ current_analysis[result.location].analysis_timestamp = 0
  /\ Reanalysed = {}

\* the last call ended in one of the four reported failures
ReportedFailure ==
  \/ IsMap /\ "error" \in DOMAIN result.value
  \/ IsEvaluate /\ "error" \in DOMAIN result.value
  \/ IsMonitor /\ "error" \in DOMAIN result.value
  \/ IsRequest /\ result.value = [error |-> "Unknown request type"]

\* C15: a call that ends in a reported failure (unsupported format, no matching obstacles, no
\* prior analysis, unknown request type) leaves both caches as they were when it began
C15_FailuresMutateNothing == ReportedFailure => Caches = before

\* C16: monitor_terrain_changes returns the error result, without asking the weather service and
\* without detected_changes, exactly when no analysis is cached for the location; otherwise a
\* result with last_analysis, detected_changes, requires_reanalysis and current_weather and no error
C16_MonitorNeedsAnAnalysis ==
  IsMonitor =>
    IF result.location \notin DOMAIN current_analysis
    THEN /\ result.value = [location |-> result.location, error |-> "No prior analysis available", recommendation |-> "Run terrain analysis first"]
         /\ result.weather_calls = << >>
         /\ "detected_changes" \notin DOMAIN result.value
    ELSE /\ {"last_analysis", "detected_changes", "requires_reanalysis", "current_weather"} \subseteq DOMAIN result.value
         /\ "error" \notin DOMAIN result.value
         /\ result.value.last_analysis = current_analysis[result.location].analysis_timestamp
         /\ result.value.current_weather = weather_agent[result.location]

\* C16 witness: the error result for a location never analysed, while the other location is
C16_Witness ==
  /\ IsMonitor
  /\ result.location \notin DOMAIN current_analysis
  /\ DOMAIN current_analysis # {}
  /\ "error" \in DOMAIN result.value

\* C19: process_request always returns a value: {error: "Unknown request type"} for a request
\* without operation key, and {error: <message>} for an exception of the operation (a required
\* parameter missing, the weather service failing)
C19_RequestsAlwaysReturn ==
  IsRequest =>
    /\ result.outcome = "returned"
    /\ Operation = 0 <=> result.value = [error |-> "Unknown request type"]
    /\ (OperationName = "analyze_terrain" /\ "location" \notin DOMAIN result.message) => result.value = [error |-> "'location'"]
    /\ (OperationName = "generate_path" /\ "start" \in DOMAIN result.message /\ "end" \notin DOMAIN result.message) => result.value = [error |-> "'end'"]
    /\ (OperationName = "evaluate_crossing_difficulty" /\ "location" \in DOMAIN result.message /\ "obstacle_type" \notin DOMAIN result.message) => result.value = [error |-> "'obstacle_type'"]
    /\ (OperationName = "evaluate_crossing_difficulty" /\ {"location", "obstacle_type"} \subseteq DOMAIN result.message /\ ~result.weather_up) => result.value = [error |-> "weather service unavailable"]
    /\ result.value = [error |-> "weather service unavailable"] => ~result.weather_up

\* C19 witness: a request whose operation ran into the failing weather service, answered by an error
C19_Witness ==
  /\ IsRequest
  /\ ~result.weather_up
  /\ OperationName = "monitor_terrain_changes"
  /\ result.outcome = "returned"
  /\ result.value = [error |-> "weather service unavailable"]

\* generate_path returned, called directly or through process_request
PathReturned == IsPath \/ (IsRequest /\ OperationName = "generate_path" /\ "error" \notin DOMAIN result.value)

\* its endpoints
Endpoints == IF IsRequest THEN {result.message["start"], result.message["end"]} ELSE {result.start, result.end}

\* C22: after generate_path both endpoints have a cached analysis and a stored obstacle list,
\* every analysis and list cached before the call is kept as it was, and no other location is touched
C22_PathReadsThroughBothCaches ==
  PathReturned =>
    /\ DOMAIN current_analysis = DOMAIN before.ca \cup Endpoints
    /\ DOMAIN obstacle_database = DOMAIN before.db \cup Endpoints
    /\ \A l \in DOMAIN before.ca : current_analysis[l] = before.ca[l]
    /\ \A l \in DOMAIN before.db : obstacle_database[l] = before.db[l]

\* C22 witness: a path from a location analysed earlier, without stored obstacles, to one never
\* analysed: the analysis is kept, the other three entries are made
C22_Witness ==
  /\ IsPath
  /\ result.start # result.end
  /\ result.start \in DOMAIN before.ca
  /\ result.start \notin DOMAIN before.db
  /\ result.end \notin DOMAIN before.ca
  /\ current_analysis[result.start] = before.ca[result.start]
  /\ current_analysis[result.start].analysis_timestamp < current_analysis[result.end].analysis_timestamp
  /\ Endpoints \subseteq DOMAIN obstacle_database

\* the stored obstacle, as <<location, position in its stored list>>, at position p of the list
\* that generate_path samples for the last call
StoredAt(p) ==
  IF p <= Len(obstacle_database[result.start])
  THEN <<result.start, p>>
  ELSE <<result.end, p - Len(obstacle_database[result.start])>>

\* the stored obstacles of start and end
KnownObstacles == {<<l, i>> \in {result.start, result.end} \X (1..10) : i <= Len(obstacle_database[l])}

\* C23: the terrain_challenges of a path are 1 to 3 of the stored obstacles of start and end, no
\* more than there are, each the challenge of a stored obstacle and no stored obstacle taken
\* twice, also when start = end
C23_ChallengesAreDistinctStoredObstacles ==
  IsPath =>
    LET challenges == result.value.terrain_challenges
    IN /\ Len(challenges) \in 1..3
       /\ Len(challenges) <= Cardinality(KnownObstacles)
       /\ Len(challenges) = Len(result.picks)
       /\ \A i \in 1..Len(challenges) :
            /\ StoredAt(result.picks[i]) \in KnownObstacles
            /\ challenges[i].type = obstacle_database[StoredAt(result.picks[i])[1]][StoredAt(result.picks[i])[2]].type
            /\ challenges[i].severity = obstacle_database[StoredAt(result.picks[i])[1]][StoredAt(result.picks[i])[2]].severity
       /\ \A i, j \in 1..Len(challenges) : i # j => StoredAt(result.picks[i]) # StoredAt(result.picks[j])

\* the positions of the features of a map that are weather features of the given kind
WeatherFeatures(features, kind) ==
  {i \in 1..Len(features) : "feature_type" \in DOMAIN features[i].properties /\ features[i].properties.feature_type = kind}

\* the positions of its obstacle points
ObstaclePoints(features) ==
  {i \in 1..Len(features) : features[i].geometry = "Point" /\ "feature_type" \notin DOMAIN features[i].properties}

\* the positions of its polygons
Polygons(features) == {i \in 1..Len(features) : features[i].geometry = "Polygon"}

\* C24: get_terrain_map(location, "geojson", include_weather) returns a FeatureCollection of one
\* polygon, one point per stored obstacle of the location and, with include_weather, one
\* weather marker and one weather-impact point per hazard interaction of the location; without
\* include_weather no weather marker and no weather-impact point
C24_MapHoldsTerrainObstaclesAndWeather ==
  (IsMap /\ Lower(result.format) = "geojson") =>
    LET features == result.value.features
    IN /\ result.value.type = "FeatureCollection"
       /\ Cardinality(Polygons(features)) = 1
       /\ Cardinality(ObstaclePoints(features)) = Len(obstacle_database[result.location])
       /\ Cardinality(WeatherFeatures(features, "weather_marker")) = IF result.include_weather THEN 1 ELSE 0
       /\ Cardinality(WeatherFeatures(features, "weather_impact")) =
            IF result.include_weather THEN Len(Get(current_analysis[result.location], "terrain_weather_interactions", << >>)) ELSE 0
       /\ Len(features) = Cardinality(Polygons(features)) + Cardinality(ObstaclePoints(features))
                          + Cardinality(WeatherFeatures(features, "weather_marker")) + Cardinality(WeatherFeatures(features, "weather_impact"))

\* a terrain snapshot with elevation.min < elevation.max and three distinct tags of the vocabulary
WellFormedSnapshot(analysis) ==
  /\ analysis.elevation.min < analysis.elevation.max
  /\ Cardinality(analysis.terrain_types) = 3
  /\ analysis.terrain_types \subseteq {"forest", "mountain", "river", "plains", "urban", "desert", "tundra", "swamp"}

\* C25: every snapshot analyze_terrain returns, and every snapshot in the analysis cache, has
\* elevation.min < elevation.max and exactly three distinct terrain-type tags of the vocabulary
C25_SnapshotsAreWellFormed ==
  /\ IsAnalyze => WellFormedSnapshot(result.value)
  /\ \A l \in DOMAIN current_analysis : WellFormedSnapshot(current_analysis[l])

\* C26: every location with a stored obstacle list has a cached terrain analysis
C26_ObstaclesOnlyOfAnalysedLocations == DOMAIN obstacle_database \subseteq DOMAIN current_analysis

\* C26 witness: identify_obstacles for a location never analysed has stored its list, and the
\* analysis it triggered is cached
C26_Witness ==
  /\ IsIdentify
  /\ result.location \notin DOMAIN before.ca
  /\ result.location \in DOMAIN obstacle_database
  /\ result.location \in DOMAIN current_analysis
  /\ DOMAIN before.ca # {}

\* evaluate_crossing_difficulty returned evaluations, called directly or through process_request
Evaluated ==
  /\ IsEvaluate \/ (IsRequest /\ OperationName = "evaluate_crossing_difficulty")
  /\ "evaluations" \in DOMAIN result.value

\* the location it was called for
EvaluatedLocation == IF IsRequest THEN result.message["location"] ELSE result.location

\* C27: every stored obstacle list holds at most one obstacle of a type, so every result of
\* evaluate_crossing_difficulty without error has exactly one evaluation, whose obstacle_id is
\* the position (from 0) of the obstacle of that type in the stored list
C27_OneObstaclePerType ==
  /\ \A l \in DOMAIN obstacle_database : \A t \in TypesIn(obstacle_database[l]) : Cardinality(OfType(obstacle_database[l], t)) = 1
  /\ Evaluated =>
       /\ Len(result.value.evaluations) = 1
       /\ OfType(obstacle_database[EvaluatedLocation], result.value.obstacle_type) = {result.value.evaluations[1].obstacle_id + 1}

\* C27 witness: steep_slope evaluated for a location whose stored list has four obstacles: one
\* evaluation, of the obstacle at position 1
C27_Witness ==
  /\ IsEvaluate
  /\ "evaluations" \in DOMAIN result.value
  /\ result.obstacle_type = "steep_slope"
  /\ Len(obstacle_database[result.location]) >= 4
  /\ Len(result.value.evaluations) = 1
  /\ result.value.evaluations[1].obstacle_id = 1

\* monitor_terrain_changes was called, directly or through process_request
Monitored == IsMonitor \/ (IsRequest /\ OperationName = "monitor_terrain_changes" /\ "location" \in DOMAIN result.message)

\* the location it was called for
MonitoredLocation == IF IsRequest THEN result.message["location"] ELSE result.location

\* the k-th change rule holds between the weather snapshot of a cached analysis and a weather
RuleHoldsSince(k, analysis, weather) ==
  /\ "weather_conditions" \in DOMAIN analysis
  /\ StatedChangeRule(k, analysis.weather_conditions, weather, analysis.terrain_types)

\* C28: monitor_terrain_changes leaves both caches as they were, also when it reports
\* requires_reanalysis, and its detected_changes are those of the rules between the weather
\* snapshot of the cached analysis and the current weather: a function of the caches it does not
\* write and of the current weather, so the same for repeated calls under the same weather
C28_MonitorIsReadOnly ==
  Monitored =>
    /\ Caches = before
    /\ "detected_changes" \in DOMAIN result.value =>
         /\ \A k \in 1..Len(StatedChangeTypes) :
              Cardinality(OfType(result.value.detected_changes, StatedChangeTypes[k])) =
                IF RuleHoldsSince(k, before.ca[MonitoredLocation], weather_agent[MonitoredLocation]) THEN 1 ELSE 0
         /\ Len(result.value.detected_changes) <= Len(StatedChangeTypes)
         /\ result.value.last_analysis = before.ca[MonitoredLocation].analysis_timestamp

\* C28 witness: a storm since the analysis: changes detected, reanalysis required, and the cached
\* snapshot still the calm one
C28_Witness ==
  /\ IsMonitor
  /\ "detected_changes" \in DOMAIN result.value
  /\ result.value.requires_reanalysis
  /\ Len(result.value.detected_changes) >= 2
  /\ current_analysis[result.location].weather_conditions # weather_agent[result.location]
  /\ current_analysis[result.location] = before.ca[result.location]

\* the locations whose cached analysis holds no weather snapshot, in a cache
WithoutWeather(ca) == {l \in DOMAIN ca : "weather_conditions" \notin DOMAIN ca[l]}

\* the last step was analyze_terrain for location l with weather included, called directly or
\* through process_request
AnalysedWithWeather(l) ==
  \/ IsAnalyze /\ result.location = l /\ result.include_weather
  \/ /\ IsRequest
     /\ OperationName = "analyze_terrain"
     /\ "location" \in DOMAIN result.message
     /\ result.message["location"] = l
     /\ Get(result.message, "include_weather", TRUE)

\* C29: while the cached analysis of a location holds no weather snapshot, monitor_terrain_changes
\* returns no detected change and requires_reanalysis = false whatever the current weather the
\* weather service reports, and
\* a cached analysis without weather snapshot stays so until analyze_terrain is called for the
\* location with weather included
C29_NoChangesWithoutWeatherSnapshot ==
  /\ (Monitored /\ MonitoredLocation \in WithoutWeather(current_analysis) /\ (IsRequest => result.weather_up)) =>
       /\ result.value.detected_changes = << >>
       /\ result.value.requires_reanalysis = FALSE
  /\ \A l \in WithoutWeather(before.ca) : l \in WithoutWeather(current_analysis) \/ AnalysedWithWeather(l)

\* C29 witness: monitor_terrain_changes in a storm, over a forest analysed without weather:
\* nothing detected
C29_Witness ==
  /\ IsMonitor
  /\ result.location \in WithoutWeather(current_analysis)
  /\ weather_agent[result.location] = WeatherStorm
  /\ "forest" \in current_analysis[result.location].terrain_types
  /\ result.value.detected_changes = << >>
  /\ result.value.requires_reanalysis = FALSE

\* the operation keys in the stated order
StatedOrder == <<"analyze_terrain", "identify_obstacles", "generate_path", "get_terrain_map", "monitor_terrain_changes", "evaluate_crossing_difficulty">>

\* the first operation key, in the stated order, that a message carries
FirstStated(message) ==
  StatedOrder[CHOOSE i \in 1..Len(StatedOrder) : StatedOrder[i] \in DOMAIN message /\ \A j \in 1..(i - 1) : StatedOrder[j] \notin DOMAIN message]

\* the required parameters of an operation
StatedParameters(operation) ==
  CASE operation = "generate_path" -> {"start", "end"}
    [] operation = "evaluate_crossing_difficulty" -> {"location", "obstacle_type"}
    [] OTHER -> {"location"}

\* a key that only the results of an operation carry
StatedResultKey(operation) ==
  CASE operation = "analyze_terrain" -> "terrain_types"
    [] operation = "identify_obstacles" -> "obstacles"
    [] operation = "generate_path" -> "waypoints"
    [] operation = "get_terrain_map" -> "features"
    [] operation = "monitor_terrain_changes" -> "detected_changes"
    [] operation = "evaluate_crossing_difficulty" -> "evaluations"

\* the last step was a request with at least one operation key
IsOperationRequest == IsRequest /\ \E i \in 1..Len(StatedOrder) : StatedOrder[i] \in DOMAIN result.message

\* C30: process_request runs only the first operation, in the stated order, whose key the request
\* carries, whatever the value of the key: the value returned is a result or an error of that
\* operation, and when it is analyze_terrain no obstacle list is written; when a required
\* parameter of that operation is missing the error is returned and both caches are unchanged
C30_OnlyTheFirstOperationRuns ==
  IsOperationRequest =>
    IF StatedParameters(FirstStated(result.message)) \subseteq DOMAIN result.message
    THEN /\ "error" \in DOMAIN result.value \/ StatedResultKey(FirstStated(result.message)) \in DOMAIN result.value
         /\ \A i \in 1..Len(StatedOrder) :
              StatedOrder[i] # FirstStated(result.message) => StatedResultKey(StatedOrder[i]) \notin DOMAIN result.value
         /\ FirstStated(result.message) = "analyze_terrain" =>
              /\ obstacle_database = before.db
              /\ "error" \in DOMAIN result.value \/ result.value = current_analysis[result.message["location"]]
              /\ \A l \in DOMAIN before.ca \ {result.message["location"]} : current_analysis[l] = before.ca[l]
    ELSE /\ DOMAIN result.value = {"error"}
         /\ Caches = before

\* C30 witness: a request with the keys analyze_terrain and evaluate_crossing_difficulty, both
\* false, for a location without stored obstacles: the analysis is returned, no obstacle stored
C30_Witness ==
  /\ IsRequest
  /\ {"analyze_terrain", "evaluate_crossing_difficulty", "location", "obstacle_type"} \subseteq DOMAIN result.message
  /\ result.message["analyze_terrain"] = FALSE
  /\ result.message["location"] \notin DOMAIN obstacle_database
  /\ "terrain_types" \in DOMAIN result.value
  /\ "evaluations" \notin DOMAIN result.value

====
